---- MODULE Spec2Model ----
(***************************************************************************)
(* Model of the failover JSON-RPC transport of hive-rs                     *)
(* (src/transport/failover.rs, src/transport/http.rs, src/client.rs) and   *)
(* of the broadcast fallback chain (src/api/broadcast.rs).                 *)
(***************************************************************************)
EXTENDS Integers, Sequences, FiniteSets, TLC

(* ---- bounds of the model ---- *)
MaxNodes == 3
MaxThreshold == 2
MaxStarts == 2
MaxFailures == 2

(* The concurrent tasks that share one FailoverTransport.                  *)
Tasks == {"t1", "t2"}

(* keys are 1 .. MaxSecret, digests 0 .. MaxDigest                        *)
MaxSecret == 3
MaxDigest == 2
(* sign_transaction is given up to MaxKeys keys                            *)
MaxKeys == 2
(* unique_nonce is called up to MaxCalls times one call at a time and up   *)
(* to MaxRuns times in a run of calls, while the clock advances up to      *)
(* MaxMs milliseconds                                                      *)
MaxCalls == 4
MaxRuns == 1
MaxMs == 1

(* ---- program constants ---- *)
DefaultRpcCode == -32000
RC_SHARE_BASIS_POINTS == 10000
DEFAULT_SIGNATURE_COUNT == 1
SIGNATURE_SIZE_BYTES == 65
SIGNATURE_VECTOR_OVERHEAD_BYTES == 1
DEFAULT_EXPIRATION_HOURS == 1
U16_MAX == 65535
U8_RANGE == 256
RecoveryIdOffset == 31
COMPRESSED_LEN == 33
NETWORK_ID == 128
NONCE_MODULUS == 65535
BLOCK_SIZE == 16

VARIABLES
    transports_len,        \* self.transports.len()
    configured,            \* the failover_threshold argument of new()
    failover_threshold,    \* self.failover_threshold
    current_index,         \* state.current_index
    failures,              \* state.failures
    lock,                  \* owner of the state mutex, "free" when unlocked
    pc,                    \* position of each task inside call()
    start_index,           \* local start_index of each task's call
    offset,                \* loop variable of each task's call
    had_transport_error,   \* local flag of each task's call
    resp,                  \* value matched at line 82 (last node answer)
    result,                \* value returned by the call
    log,                   \* ghost: node attempts completed by the call
    snap,                  \* ghost: failover state when the call started
    committed,             \* ghost: failure updates the call has committed
    interfered,            \* ghost: another task wrote the state meanwhile
    started,               \* ghost: number of calls started so far
    last_success,          \* ghost: node that most recently answered Ok
    crossed                \* ghost: a counter reached the threshold since

VARIABLES
    transaction,           \* the SignedTransaction given to send()
    send_pc,               \* position inside send / send_async_with_confirmation
    sync_result,           \* result of broadcast_transaction_synchronous
    tx_id,                 \* local tx_id of send_async_with_confirmation
    poll,                  \* turn of the loop `for _ in 0..15`
    send_result,           \* value returned by send()
    requests,              \* ghost: RPC methods issued by send(), in order
    sleeps,                \* ghost: 1 s sleeps taken by send()
    found                  \* ghost: get_transaction value a poll obtained

svars == <<transaction, send_pc, sync_result, tx_id, poll, send_result,
           requests, sleeps, found>>

fvars == <<transports_len, configured, failover_threshold, current_index,
           failures, lock, pc, start_index, offset, had_transport_error,
           resp, result, log, snap, committed, interfered, started,
           last_success, crossed>>

VARIABLES
    transaction_id,        \* the id given to find_transaction()
    find_pc,               \* position inside find_transaction
    status_result,         \* result of transaction_status_api.find_transaction
    condenser_result,      \* result of condenser_api.get_transaction
    find_result,           \* value returned by find_transaction()
    find_requests          \* ghost: RPC methods issued, in order

tvars == <<transaction_id, find_pc, status_result, condenser_result,
           find_result, find_requests>>

VARIABLES
    secret,                \* self.secret of the signing PrivateKey
    digest,                \* the digest given to sign()
    sign_pc,               \* position inside PrivateKey::sign
    attempts,              \* local attempts of sign()
    sign_result,           \* value returned by sign()
    rejected               \* ghost: signatures found not canonical so far

kvars == <<secret, digest, sign_pc, attempts, sign_result, rejected>>

VARIABLES
    unsigned_tx,           \* the Transaction given to sign_transaction()
    keys,                  \* the keys given to sign_transaction()
    chain_id,              \* the ChainId given to sign_transaction()
    signtx_pc,             \* "idle" before the call, "done" after it
    signtx_result          \* value returned by sign_transaction()

xvars == <<unsigned_tx, keys, chain_id, signtx_pc, signtx_result>>

VARIABLES
    varint_in,             \* the u32 given to write_varint32
    trailing,              \* the bytes that follow the varint in the input
    varint_pc,             \* "write", "read" or "done"
    val,                   \* local val of write_varint32
    buf,                   \* the buffer write_varint32 appends to
    cursor,                \* the slice read_varint32 reads from
    value,                 \* local value of read_varint32
    shift,                 \* local shift of read_varint32
    read_index,            \* local index of read_varint32
    read_result            \* value returned by read_varint32

vvars == <<varint_in, trailing, varint_pc, val, buf, cursor, value, shift,
           read_index, read_result>>

VARIABLES
    asset,                 \* the Asset that is formatted
    asset_text,            \* the string given to Asset::from_string
    asset_pc,              \* "format", "parse" or "done"
    parsed,                \* value returned by Asset::from_string
    text_parts             \* ghost: how a parsed string was put together

avars == <<asset, asset_text, asset_pc, parsed, text_parts>>

VARIABLES
    rc_operations,         \* operations given to calculate_cost_from_state
    rc_params,             \* params (RCParams)
    rc_pool,               \* pool (RCPool), an Option of the pool amounts
    rc_regen,              \* regen
    rc_shares,             \* shares, name -> basis points
    rc_checks,             \* the build checks arithmetic overflow
    rc_pc,                 \* "idle" before the call, "done" after it
    rc_result              \* value returned by calculate_cost_from_state

rvars == <<rc_operations, rc_params, rc_pool, rc_regen, rc_shares, rc_checks,
           rc_pc, rc_result>>

(* every part of the library but the one named is left alone by a step     *)
VARIABLES
    memo_message,          \* message, a String
    sender_private,        \* sender_private
    receiver_private,      \* the private key of receiver_public
    memo_nonce,            \* nonce
    memo_pc,               \* "start", "encoded", "decoded"
    encoded,               \* what encode_with_nonce returned
    decode_input,          \* the encoded argument of decode
    decode_key,            \* the receiver_private argument of decode
    payload,               \* the payload decode read
    decoded                \* what decode returned

mvars == <<memo_message, sender_private, receiver_private, memo_nonce,
           memo_pc, encoded, decode_input, decode_key, payload, decoded>>

VARIABLES
    entropy,               \* NONCE_ENTROPY, <<>> before get_or_init
    clock_ms,              \* the wall clock, in milliseconds
    nonce_pc,              \* per thread: "idle" or "clock_read"
    now_ms,                \* per thread: now_ms
    calls,                 \* calls of unique_nonce that have returned
    runs,                  \* runs of calls that have returned
    first_nonce,           \* what the first call to return returned
    last_nonce             \* what the last call to return returned

nvars == <<entropy, clock_ms, nonce_pc, now_ms, calls, runs, first_nonce,
           last_nonce>>

VARIABLES
    call                   \* the library call made: the function, which is
                           \* "" before the call, its argument and what
                           \* it returned

lvars == <<call>>

function == call[1]
argument == call[2]
call_result == call[3]

VARIABLES
    read_input,            \* the bytes under the cursor read_varint32 is given
    read_pc,               \* "call" before the call, "done" after it
    read_output            \* what read_varint32 returned, and the cursor

dvars == <<read_input, read_pc, read_output>>

VARIABLES
    share_params,          \* the RCParams fallback_share_map is given
    share_checks,          \* the build checks arithmetic overflow
    share_pc,              \* "call" before the call, "done" after it
    share_map              \* what fallback_share_map returned

hvars == <<share_params, share_checks, share_pc, share_map>>

VARIABLES
    est_operations,        \* the operations of the two evaluations
    est_params,            \* the params of the two evaluations
    est_now,               \* the wall clock, in seconds since 1970
    est_results            \* what calculate_cost_from_state returned so far

evars == <<est_operations, est_params, est_now, est_results>>

VARIABLES
    op_input,              \* the operation given to hive_serialize
    op_output              \* the bytes appended to the buffer, or the error

ovars == <<op_input, op_output>>

VARIABLES
    bn_options,            \* options.from and options.to, each an Option<u32>
    bn_numbers,            \* the block numbers the node reports in this run
    bn_current,            \* current
    bn_seen,               \* seen
    bn_pc,                 \* where the generator of get_block_numbers stands
    bn_yielded,            \* the block numbers yielded so far, in order
    bn_polled,             \* the answers of get_current_block_num so far
    bn_error               \* the error the stream ended with, or "none"

bvars == <<bn_options, bn_numbers, bn_current, bn_seen, bn_pc, bn_yielded,
           bn_polled, bn_error>>

Frame(part) ==
    /\ IF part = "failover" THEN TRUE ELSE UNCHANGED fvars
    /\ IF part = "send" THEN TRUE ELSE UNCHANGED svars
    /\ IF part = "find" THEN TRUE ELSE UNCHANGED tvars
    /\ IF part = "sign" THEN TRUE ELSE UNCHANGED kvars
    /\ IF part = "sign_transaction" THEN TRUE ELSE UNCHANGED xvars
    /\ IF part = "varint" THEN TRUE ELSE UNCHANGED vvars
    /\ IF part = "asset" THEN TRUE ELSE UNCHANGED avars
    /\ IF part = "rc" THEN TRUE ELSE UNCHANGED rvars
    /\ IF part = "memo" THEN TRUE ELSE UNCHANGED mvars
    /\ IF part = "nonce" THEN TRUE ELSE UNCHANGED nvars
    /\ IF part = "library" THEN TRUE ELSE UNCHANGED lvars
    /\ IF part = "reader" THEN TRUE ELSE UNCHANGED dvars
    /\ IF part = "shares" THEN TRUE ELSE UNCHANGED hvars
    /\ IF part = "estimator" THEN TRUE ELSE UNCHANGED evars
    /\ IF part = "operation" THEN TRUE ELSE UNCHANGED ovars
    /\ IF part = "stream" THEN TRUE ELSE UNCHANGED bvars

Nodes == 0 .. (transports_len - 1)

(* ---- values ---- *)
NoErr == [code |-> 0, message |-> <<>>, data |-> "none"]
NoValue == [node |-> -1, body |-> "none"]
NoResult == [kind |-> "None", err |-> NoErr, value |-> NoValue]

Ok(v) == [kind |-> "Ok", err |-> NoErr, value |-> v]
Rpc(code, message, data) ==
    [kind |-> "Rpc",
     err |-> [code |-> code, message |-> message, data |-> data],
     value |-> NoValue]
Transport == [kind |-> "Transport", err |-> NoErr, value |-> NoValue]
Timeout == [kind |-> "Timeout", err |-> NoErr, value |-> NoValue]
Serialization == [kind |-> "Serialization", err |-> NoErr, value |-> NoValue]
AllNodesFailed == [kind |-> "AllNodesFailed", err |-> NoErr, value |-> NoValue]
Other == [kind |-> "Other", err |-> NoErr, value |-> NoValue]
InvalidAsset == [kind |-> "InvalidAsset", err |-> NoErr, value |-> NoValue]
Panic == [kind |-> "Panic", err |-> NoErr, value |-> NoValue]
InvalidKey == [kind |-> "InvalidKey", err |-> NoErr, value |-> NoValue]
Signing(message) ==
    [kind |-> "Signing",
     err |-> [code |-> 0, message |-> message, data |-> "none"],
     value |-> NoValue]

(* JSON error objects a node may put in the "error" field; a missing       *)
(* field is has_* = FALSE.                                                 *)
ErrorBodies ==
    { [has_code |-> TRUE, code |-> 10, has_message |-> TRUE,
       message |-> <<"bad", "request">>, data |-> "none"],
      [has_code |-> FALSE, code |-> 0, has_message |-> FALSE,
       message |-> <<>>, data |-> "detail"] }

(* What a node can do with one POST.                                       *)
NodeBehaviours(node) ==
    { [raw |-> "send_timeout", error |-> CHOOSE e \in ErrorBodies : TRUE,
       value |-> NoValue],
      [raw |-> "send_failed", error |-> CHOOSE e \in ErrorBodies : TRUE,
       value |-> NoValue],
      [raw |-> "http_status", error |-> CHOOSE e \in ErrorBodies : TRUE,
       value |-> NoValue],
      [raw |-> "bad_json", error |-> CHOOSE e \in ErrorBodies : TRUE,
       value |-> NoValue],
      [raw |-> "no_result", error |-> CHOOSE e \in ErrorBodies : TRUE,
       value |-> NoValue],
      [raw |-> "bad_result", error |-> CHOOSE e \in ErrorBodies : TRUE,
       value |-> NoValue],
      [raw |-> "result", error |-> CHOOSE e \in ErrorBodies : TRUE,
       value |-> [node |-> node, body |-> "pong"]] }
    \cup { [raw |-> "error_body", error |-> e, value |-> NoValue] :
             e \in ErrorBodies }

(* impl From<reqwest::Error> for HiveError                                 *)
FromReqwestError(is_timeout) == IF is_timeout THEN Timeout ELSE Transport

(* HttpTransport::call: the Result for one node behaviour.                 *)
HttpTransportCall(b) ==
    CASE b.raw = "send_timeout" -> FromReqwestError(TRUE)
      [] b.raw = "send_failed" -> FromReqwestError(FALSE)
      [] b.raw = "http_status" -> Transport
      [] b.raw = "bad_json" -> FromReqwestError(FALSE)
      [] b.raw = "error_body" ->
            Rpc(IF b.error.has_code THEN b.error.code ELSE DefaultRpcCode,
                IF b.error.has_message THEN b.error.message
                ELSE <<"unknown", "rpc", "error">>,
                b.error.data)
      [] b.raw = "no_result" -> Serialization
      [] b.raw = "bad_result" -> Serialization
      [] OTHER -> Ok(b.value)

(* FailoverTransport::new: failover_threshold.max(1)                       *)
ThresholdOf(t) == IF t > 1 THEN t ELSE 1

(* u32::saturating_add(1). The guard of HttpComplete keeps every counter    *)
(* at or below MaxFailures, far from u32::MAX, where the sum is exact.     *)
SaturatingInc_Twice(n) == n + 2
SaturatingInc(n) == n + 1

(* index of the node tried at a loop offset                                *)
IndexOf_FromCurrent(start, off) == (current_index + off) % transports_len
IndexOf(start, off) == (start + off) % transports_len

(* the match arm `Err(HiveError::Rpc { .. })`                              *)
IsRpcError_Never(r) == FALSE
IsRpcError(r) == r.kind = "Rpc"

(* the node after index in the ring                                        *)
NextInRing(index) == (index + 1) % transports_len

(* the comparison that advances the sticky index                           *)
ReachedThreshold_Strict(n) == n > failover_threshold
ReachedThreshold(n) == n >= failover_threshold

(* the loop `for offset in 0..self.transports.len()` has a next turn       *)
LoopContinues_Short(off) == off + 2 < transports_len
LoopContinues(off) == off + 1 < transports_len

(* the Rpc arm rebuilds the error from its three fields                    *)
RpcArmResult_NoData(r) == Rpc(r.err.code, r.err.message, "none")
RpcArmResult(r) == Rpc(r.err.code, r.err.message, r.err.data)

(* Ok arm: state.current_index = index                                     *)
StickyAfterSuccess_Keep(index) == current_index
StickyAfterSuccess(index) == index

(* Ok arm: state.failures[index] = 0                                       *)
ResetFailures_Keep(f, index) == f
ResetFailures(f, index) == [f EXCEPT ![index] = 0]

(* ClientInner::call and Client::call hand the transport's result on       *)
ClientCall(r) == r

(* Err arm: state.failures[index] = state.failures[index].saturating_add(1) *)
RecordFailure_ClearOthers(f, index, n) ==
    [i \in DOMAIN f |-> IF i = index THEN n ELSE 0]
RecordFailure(f, index, n) == [f EXCEPT ![index] = n]

(* the guard released by drop(state) before the backoff sleep              *)
LockAfterFailureUpdate_Held(t) == t
LockAfterFailureUpdate(t) == "free"

(* ---- initial state: FailoverTransport::new ---- *)
FInit ==
    /\ transports_len \in 0 .. MaxNodes
    /\ configured \in 0 .. MaxThreshold
    /\ failover_threshold = ThresholdOf(configured)
    /\ current_index = 0
    /\ failures = [i \in 0 .. (transports_len - 1) |-> 0]
    /\ lock = "free"
    /\ pc = [t \in Tasks |-> "idle"]
    /\ start_index = [t \in Tasks |-> 0]
    /\ offset = [t \in Tasks |-> 0]
    /\ had_transport_error = [t \in Tasks |-> FALSE]
    /\ resp = [t \in Tasks |-> NoResult]
    /\ result = [t \in Tasks |-> NoResult]
    /\ log = [t \in Tasks |-> <<>>]
    /\ snap = [t \in Tasks |-> [current_index |-> 0, failures |-> <<>>]]
    /\ committed = [t \in Tasks |-> 0]
    /\ interfered = [t \in Tasks |-> FALSE]
    /\ started = 0
    /\ last_success = -1
    /\ crossed = FALSE

Active(t) == pc[t] \notin {"idle", "done", "cancelled"}

(* ghost bookkeeping of a write to the failover state by task t            *)
Interfere(t) ==
    interfered' = [u \in Tasks |-> IF u # t THEN TRUE ELSE interfered[u]]

ResetLocals(t, r) ==
    /\ start_index' = [start_index EXCEPT ![t] = 0]
    /\ offset' = [offset EXCEPT ![t] = 0]
    /\ had_transport_error' = [had_transport_error EXCEPT ![t] = FALSE]
    /\ resp' = [resp EXCEPT ![t] = NoResult]
    /\ result' = [result EXCEPT ![t] = r]
    /\ log' = [log EXCEPT ![t] = <<>>]
    /\ snap' = [snap EXCEPT ![t] = [current_index |-> current_index,
                                    failures |-> failures]]
    /\ committed' = [committed EXCEPT ![t] = 0]
    /\ interfered' = [interfered EXCEPT ![t] = FALSE]
    /\ started' = started + 1

(* call() entered with an empty node list: lines 72-74                     *)
CallEmpty(t) ==
    /\ ~Active(t)
    /\ started < MaxStarts
    /\ transports_len = 0
    /\ ResetLocals(t, AllNodesFailed)
    /\ pc' = [pc EXCEPT ![t] = "done"]
    /\ UNCHANGED <<transports_len, configured, failover_threshold,
                   current_index, failures, lock, last_success, crossed>>
    /\ Frame("failover")

(* call() entered: line 76 starts waiting for the state mutex              *)
Begin(t) ==
    /\ ~Active(t)
    /\ started < MaxStarts
    /\ transports_len > 0
    /\ ResetLocals(t, NoResult)
    /\ pc' = [pc EXCEPT ![t] = "lock_start"]
    /\ UNCHANGED <<transports_len, configured, failover_threshold,
                   current_index, failures, lock, last_success, crossed>>
    /\ Frame("failover")

(* self.state.lock().await resolves at line 76, 87 or 107                  *)
Acquire(t) ==
    /\ pc[t] \in {"lock_start", "lock_ok", "lock_err"}
    /\ lock = "free"
    /\ lock' = t
    /\ pc' = [pc EXCEPT ![t] = CASE pc[t] = "lock_start" -> "read_start"
                                 [] pc[t] = "lock_ok" -> "cs_ok"
                                 [] OTHER -> "cs_err"]
    /\ UNCHANGED <<transports_len, configured, failover_threshold,
                   current_index, failures, start_index, offset,
                   had_transport_error, resp, result, log, snap, committed, interfered,
                   started, last_success, crossed>>
    /\ Frame("failover")

(* line 76: read current_index, the temporary guard is dropped; line 77;   *)
(* the first request of the loop is sent (lines 79-84)                     *)
ReadStart(t) ==
    /\ pc[t] = "read_start"
    /\ lock = t
    /\ start_index' = [start_index EXCEPT ![t] = current_index]
    /\ had_transport_error' = [had_transport_error EXCEPT ![t] = FALSE]
    /\ lock' = "free"
    /\ pc' = [pc EXCEPT ![t] = "http"]
    /\ UNCHANGED <<transports_len, configured, failover_threshold,
                   current_index, failures, offset, resp, result, log, snap,
                   committed, interfered, started, last_success, crossed>>
    /\ Frame("failover")

(* the request to node index completes: lines 82-85, and the arms of the   *)
(* match up to their first suspension point (lines 86-87, 92-102, 103-107) *)
HttpComplete(t) ==
    /\ pc[t] = "http"
    /\ LET index == IndexOf(start_index[t], offset[t]) IN
       \E b \in NodeBehaviours(index) :
         LET r == HttpTransportCall(b) IN
         /\ failures[index] < MaxFailures \/ r.kind \in {"Ok", "Rpc"}
         /\ resp' = [resp EXCEPT ![t] = r]
         /\ log' = [log EXCEPT ![t] =
                      Append(@, [node |-> index,
                                 kind |-> IF r.kind \in {"Ok", "Rpc"}
                                          THEN r.kind ELSE "Failed"])]
         /\ IF r.kind = "Ok"
            THEN /\ pc' = [pc EXCEPT ![t] = "lock_ok"]
                 /\ UNCHANGED <<result, had_transport_error>>
            ELSE IF IsRpcError(r)
            THEN /\ pc' = [pc EXCEPT ![t] = "done"]
                 /\ result' = [result EXCEPT ![t] = RpcArmResult(r)]
                 /\ UNCHANGED had_transport_error
            ELSE /\ pc' = [pc EXCEPT ![t] = "lock_err"]
                 /\ had_transport_error' =
                        [had_transport_error EXCEPT ![t] = TRUE]
                 /\ UNCHANGED result
    /\ UNCHANGED <<transports_len, configured, failover_threshold,
                   current_index, failures, lock, start_index, offset, snap,
                   committed, interfered, started, last_success, crossed>>
    /\ Frame("failover")

(* Ok arm with the lock held: lines 88-90                                  *)
CommitOk(t) ==
    /\ pc[t] = "cs_ok"
    /\ lock = t
    /\ LET index == IndexOf(start_index[t], offset[t]) IN
       /\ current_index' = StickyAfterSuccess(index)
       /\ failures' = ResetFailures(failures, index)
       /\ last_success' = index
    /\ crossed' = FALSE
    /\ result' = [result EXCEPT ![t] = resp[t]]
    /\ lock' = "free"
    /\ pc' = [pc EXCEPT ![t] = "done"]
    /\ Interfere(t)
    /\ UNCHANGED <<transports_len, configured, failover_threshold,
                   start_index, offset, had_transport_error, resp, log, snap,
                   committed, started>>
    /\ Frame("failover")

(* Err arm with the lock held: lines 108-114, then the sleep starts        *)
CommitErr(t) ==
    /\ pc[t] = "cs_err"
    /\ lock = t
    /\ LET index == IndexOf(start_index[t], offset[t])
           node_failures == SaturatingInc(failures[index]) IN
       /\ failures' = RecordFailure(failures, index, node_failures)
       /\ IF ReachedThreshold(node_failures)
          THEN /\ current_index' = NextInRing(index)
               /\ crossed' = TRUE
          ELSE UNCHANGED <<current_index, crossed>>
    /\ lock' = LockAfterFailureUpdate(t)
    /\ pc' = [pc EXCEPT ![t] = "sleep"]
    /\ committed' = [committed EXCEPT ![t] = @ + 1]
    /\ Interfere(t)
    /\ UNCHANGED <<transports_len, configured, failover_threshold,
                   start_index, offset, had_transport_error, resp, result,
                   log, snap, started, last_success>>
    /\ Frame("failover")

(* the backoff sleep of line 115 ends: next loop iteration, or the loop    *)
(* is over and lines 120-126 produce the error                             *)
Wake(t) ==
    /\ pc[t] = "sleep"
    /\ IF LoopContinues(offset[t])
       THEN /\ offset' = [offset EXCEPT ![t] = @ + 1]
            /\ pc' = [pc EXCEPT ![t] = "http"]
            /\ UNCHANGED result
       ELSE /\ pc' = [pc EXCEPT ![t] = "done"]
            /\ result' = [result EXCEPT ![t] =
                            IF had_transport_error[t] THEN AllNodesFailed
                            ELSE Other]
            /\ UNCHANGED offset
    /\ UNCHANGED <<transports_len, configured, failover_threshold,
                   current_index, failures, lock, start_index,
                   had_transport_error, resp, log, snap, committed, interfered, started,
                   last_success, crossed>>
    /\ Frame("failover")

(* the caller drops the pending future at one of its await points; the     *)
(* locals of the call are dropped with it                                  *)
Cancel(t) ==
    /\ pc[t] \in {"lock_start", "http", "lock_ok", "lock_err", "sleep"}
    /\ pc' = [pc EXCEPT ![t] = "cancelled"]
    /\ offset' = [offset EXCEPT ![t] = 0]
    /\ had_transport_error' = [had_transport_error EXCEPT ![t] = FALSE]
    /\ resp' = [resp EXCEPT ![t] = NoResult]
    /\ log' = [log EXCEPT ![t] = <<>>]
    /\ UNCHANGED <<transports_len, configured, failover_threshold,
                   current_index, failures, lock, start_index, result, snap,
                   committed, interfered, started, last_success, crossed>>
    /\ Frame("failover")

FNext ==
    \E t \in Tasks :
        \/ CallEmpty(t)
        \/ Begin(t)
        \/ Acquire(t)
        \/ ReadStart(t)
        \/ HttpComplete(t)
        \/ CommitOk(t)
        \/ CommitErr(t)
        \/ Wake(t)
        \/ Cancel(t)

(* ===================== BroadcastApi::send ============================= *)

PollLimit == 15

(* str::to_ascii_lowercase, word by word                                   *)
LowerWord(w) ==
    CASE w = "Could" -> "could"
      [] w = "API" -> "api"
      [] w = "Unknown" -> "unknown"
      [] w = "Transaction" -> "transaction"
      [] w = "Method" -> "method"
      [] w = "Missing" -> "missing"
      [] OTHER -> w
to_ascii_lowercase(message) ==
    [i \in 1 .. Len(message) |-> LowerWord(message[i])]

(* str::contains                                                           *)
contains(message, pattern) ==
    \E i \in 1 .. (Len(message) - Len(pattern) + 1) :
        SubSeq(message, i, i + Len(pattern) - 1) = pattern

should_fallback_AnyRpc(error) ==
    error.kind \in {"Transport", "Timeout", "AllNodesFailed",
                    "Serialization", "Rpc"}
(* should_fallback_to_async_broadcast                                      *)
should_fallback_to_async_broadcast(error) ==
    CASE error.kind \in {"Transport", "Timeout", "AllNodesFailed"} -> TRUE
      [] error.kind = "Serialization" -> TRUE
      [] error.kind = "Rpc" ->
            LET message == to_ascii_lowercase(error.err.message) IN
            \/ contains(message, <<"could", "not", "find", "method">>)
            \/ contains(message, <<"could", "not", "find", "api">>)
      [] OTHER -> FALSE

(* is_transient_lookup_error                                               *)
is_transient_lookup_error(error) ==
    CASE error.kind \in {"Transport", "Timeout", "AllNodesFailed"} -> TRUE
      [] error.kind = "Rpc" ->
            LET message == to_ascii_lowercase(error.err.message) IN
            \/ contains(message, <<"unknown", "transaction">>)
            \/ contains(message, <<"unable", "to", "find", "transaction">>)
            \/ contains(message, <<"missing", "transaction">>)
            \/ contains(message, <<"could", "not", "find", "method">>)
            \/ contains(message, <<"could", "not", "find", "api">>)
      [] OTHER -> FALSE

(* write_date: DateTime::parse_from_rfc3339 of the date (with a Z added    *)
(* when it has none) and the range test of the timestamp                   *)
DateClass(date) ==
    CASE date \in {"2017-07-15T16:51:19", "2017-07-15T16:51:19Z",
                   "2024-01-01T00:00:00"} -> "in_u32_range"
      [] date = "2200-01-01T00:00:00" -> "after_u32_range"
      [] date = "1969-12-31T23:59:59" -> "before_epoch"
      [] OTHER -> "unparsable"
write_date(date) ==
    IF DateClass(date) = "in_u32_range" THEN Ok(<<"u32", date>>)
    ELSE Serialization

(* serialize_transaction fails on a bad expiration and on the mining       *)
(* operations                                                              *)
serialize_transaction(unsigned) ==
    IF write_date(unsigned.expiration).kind # "Ok" THEN Serialization
    ELSE IF \E i \in 1 .. Len(unsigned.operations) :
           unsigned.operations[i] \in {"pow", "pow2"}
    THEN Serialization
    ELSE Ok(<<"bytes", unsigned>>)

(* generate_trx_id: the first 40 hex digits of sha256(serialized tx)       *)
generate_trx_id(unsigned) ==
    LET tx_bytes == serialize_transaction(unsigned) IN
    IF tx_bytes.kind # "Ok" THEN tx_bytes
    ELSE Ok(<<"hex40", "sha256", tx_bytes.value>>)

signed_transaction_id_WithSignatures(tx) == generate_trx_id(tx)
(* signed_transaction_id: the id of the transaction without signatures     *)
signed_transaction_id(tx) ==
    generate_trx_id([ref_block_num |-> tx.ref_block_num,
                     ref_block_prefix |-> tx.ref_block_prefix,
                     expiration |-> tx.expiration,
                     operations |-> tx.operations,
                     extensions |-> tx.extensions])

(* Option<&Value>.and_then(as_u64).and_then(u32::try_from).unwrap_or(0);   *)
(* an Option is a sequence of length 0 or 1, a JSON value that is no u64   *)
(* is a negative number here                                               *)
AsU32OrZero(field) == IF field = <<>> THEN 0
                      ELSE IF field[1] < 0 THEN 0 ELSE field[1]

(* confirmation_from_condenser_transaction                                 *)
confirmation_from_condenser_transaction(id, tx) ==
    [id |-> id,
     block_num |-> AsU32OrZero(tx.block_num),
     trx_num |-> AsU32OrZero(IF tx.transaction_num # <<>>
                             THEN tx.transaction_num ELSE tx.trx_num),
     expired |-> FALSE]

(* the confirmation built after the loop, lines 600-606                    *)
NotYetVisible(id) ==
    [id |-> id, block_num |-> 0, trx_num |-> 0, expired |-> FALSE]

(* inputs: transactions handed to send()                                   *)
Transactions ==
    [ref_block_num : {1}, ref_block_prefix : {2},
     expiration : {"2024-01-01T00:00:00"},
     operations : {<<>>, <<"transfer">>, <<"pow">>},
     extensions : {<<>>},
     signatures : {<<"1f00">>, <<"1f00", "2000">>}]

RpcMessages ==
    { <<"Could", "not", "find", "method", "broadcast_transaction_synchronous">>,
      <<"could", "not", "find", "API", "condenser_api">>,
      <<"Unknown", "Transaction">>,
      <<"unable", "to", "find", "transaction">>,
      <<"missing", "transaction">>,
      <<"missing", "required", "active", "authority">> }

ConfirmationValues ==
    { [id |-> "abc", block_num |-> 42, trx_num |-> 1, expired |-> FALSE] }

TransactionValues ==
    { [block_num |-> <<42>>, transaction_num |-> <<7>>, trx_num |-> <<>>],
      [block_num |-> <<42>>, transaction_num |-> <<>>, trx_num |-> <<3>>],
      [block_num |-> <<>>, transaction_num |-> <<-1>>, trx_num |-> <<3>>] }

(* What ClientInner::call can return for a method: the deserialized        *)
(* result, an Rpc error, or AllNodesFailed (FailoverTransport::call        *)
(* returns no other error when the node list is not empty).                *)
ClientOutcomes(method) ==
    { ClientCall(Ok(v)) :
        v \in CASE method = "broadcast_transaction_synchronous"
                     -> ConfirmationValues
                [] method = "get_transaction" -> TransactionValues
                [] OTHER -> {[empty_object |-> TRUE]} }
    \cup { ClientCall(Rpc(-32000, m, "none")) : m \in RpcMessages }
    \cup { ClientCall(AllNodesFailed) }

SInit ==
    /\ transaction \in Transactions
    /\ send_pc = "idle"
    /\ sync_result = NoResult
    /\ tx_id = <<>>
    /\ poll = 0
    /\ send_result = NoResult
    /\ requests = <<>>
    /\ sleeps = 0
    /\ found = <<>>

(* send() is called: the synchronous broadcast is issued, lines 93-100     *)
SendCalled ==
    /\ send_pc = "idle"
    /\ requests' = Append(requests, "broadcast_transaction_synchronous")
    /\ send_pc' = "sync"
    /\ UNCHANGED <<transaction, sync_result, tx_id, poll, send_result,
                   sleeps, found>>
    /\ Frame("send")

(* the synchronous broadcast returns: lines 101-107, and on the fallback   *)
(* path lines 574-583 up to the await of broadcast_transaction             *)
SyncReturns ==
    /\ send_pc = "sync"
    /\ \E r \in ClientOutcomes("broadcast_transaction_synchronous") :
         /\ sync_result' = r
         /\ IF r.kind = "Ok"
            THEN /\ send_result' = r
                 /\ send_pc' = "done"
                 /\ UNCHANGED <<tx_id, requests>>
            ELSE IF should_fallback_to_async_broadcast(r)
            THEN LET id == signed_transaction_id(transaction) IN
                 IF id.kind # "Ok"
                 THEN /\ send_result' = id
                      /\ send_pc' = "done"
                      /\ UNCHANGED <<tx_id, requests>>
                 ELSE /\ tx_id' = id.value
                      /\ requests' = Append(requests, "broadcast_transaction")
                      /\ send_pc' = "async"
                      /\ UNCHANGED send_result
            ELSE /\ send_result' = r
                 /\ send_pc' = "done"
                 /\ UNCHANGED <<tx_id, requests>>
    /\ UNCHANGED <<transaction, poll, sleeps, found>>
    /\ Frame("send")

(* broadcast_transaction returns: line 583, then the first turn of the     *)
(* loop issues get_transaction, lines 585-589                              *)
AsyncReturns ==
    /\ send_pc = "async"
    /\ \E r \in ClientOutcomes("broadcast_transaction") :
         IF r.kind = "Ok"
         THEN /\ poll' = 0
              /\ requests' = Append(requests, "get_transaction")
              /\ send_pc' = "poll"
              /\ UNCHANGED send_result
         ELSE /\ send_result' = r
              /\ send_pc' = "done"
              /\ UNCHANGED <<poll, requests>>
    /\ UNCHANGED <<transaction, sync_result, tx_id, sleeps, found>>
    /\ Frame("send")

(* get_transaction returns: lines 590-597                                  *)
PollReturns ==
    /\ send_pc = "poll"
    /\ \E r \in ClientOutcomes("get_transaction") :
         IF r.kind = "Ok"
         THEN /\ found' = <<r.value>>
              /\ send_result' =
                   Ok(confirmation_from_condenser_transaction(tx_id, r.value))
              /\ send_pc' = "done"
         ELSE IF is_transient_lookup_error(r)
         THEN /\ send_pc' = "sleep"
              /\ UNCHANGED <<found, send_result>>
         ELSE /\ send_result' = r
              /\ send_pc' = "done"
              /\ UNCHANGED found
    /\ UNCHANGED <<transaction, sync_result, tx_id, poll, requests, sleeps>>
    /\ Frame("send")

(* the 1 s sleep of line 593 ends: next turn of the loop, or lines 600-606 *)
SleepEnds ==
    /\ send_pc = "sleep"
    /\ sleeps' = sleeps + 1
    /\ IF poll + 1 < PollLimit
       THEN /\ poll' = poll + 1
            /\ requests' = Append(requests, "get_transaction")
            /\ send_pc' = "poll"
            /\ UNCHANGED send_result
       ELSE /\ send_result' = Ok(NotYetVisible(tx_id))
            /\ send_pc' = "done"
            /\ UNCHANGED <<poll, requests>>
    /\ UNCHANGED <<transaction, sync_result, tx_id, found>>
    /\ Frame("send")

SNext == SendCalled \/ SyncReturns \/ AsyncReturns \/ PollReturns \/ SleepEnds

(* ================ TransactionStatusApi::find_transaction ============== *)

should_fallback_to_condenser_AnyRpc(error) == error.kind = "Rpc"
(* should_fallback_to_condenser                                            *)
should_fallback_to_condenser(error) ==
    IF error.kind # "Rpc" THEN FALSE
    ELSE LET message == to_ascii_lowercase(error.err.message) IN
         \/ contains(message, <<"could", "not", "find", "method">>)
         \/ contains(message, <<"could", "not", "find", "api">>)

(* is_unknown_transaction_error                                            *)
is_unknown_transaction_error(msg) ==
    LET message == to_ascii_lowercase(msg) IN
    \/ contains(message, <<"unknown", "transaction">>)
    \/ contains(message, <<"unable", "to", "find", "transaction">>)
    \/ contains(message, <<"missing", "transaction">>)

(* TransactionStatus { status }                                            *)
TransactionStatus(status) == [status |-> status]

(* inputs: ids asked for, and what the node may answer                     *)
TransactionIds == {"deadbeef", "cafebabe", "00", "not-hex"}

StatusValues ==
    { TransactionStatus(st) :
        st \in {"within_mempool", "within_reversible_block", "unknown",
                "found_in_block"} }

FindMessages ==
    RpcMessages
    \cup { <<"Assert", "Exception", "Could", "not", "find", "Method",
             "find_transaction">>,
           <<"Missing", "Transaction", "deadbeef">>,
           <<"could", "not", "find", "transaction">>,
           <<"unknown", "rpc", "error">> }

(* What ClientInner::call can return to find_transaction: the deserialized *)
(* result, an Rpc error, or AllNodesFailed.                                *)
FindOutcomes(method) ==
    { ClientCall(Ok(v)) :
        v \in IF method = "find_transaction" THEN StatusValues
              ELSE {[null |-> TRUE], [null |-> FALSE]} }
    \cup { ClientCall(Rpc(DefaultRpcCode, m, "none")) : m \in FindMessages }
    \cup { ClientCall(AllNodesFailed) }

TInit ==
    /\ transaction_id \in TransactionIds
    /\ find_pc = "idle"
    /\ status_result = NoResult
    /\ condenser_result = NoResult
    /\ find_result = NoResult
    /\ find_requests = <<>>

(* find_transaction() is called: the first request is issued, lines 20-27  *)
FindCalled ==
    /\ find_pc = "idle"
    /\ find_requests' = Append(find_requests, "find_transaction")
    /\ find_pc' = "status"
    /\ UNCHANGED <<transaction_id, status_result, condenser_result,
                   find_result>>
    /\ Frame("find")

(* the first call returns: the match of lines 28-34, which issues the      *)
(* condenser request in its second arm                                     *)
StatusReturns ==
    /\ find_pc = "status"
    /\ \E r \in FindOutcomes("find_transaction") :
        /\ status_result' = r
        /\ IF r.kind = "Ok"
           THEN /\ find_result' = r
                /\ find_pc' = "done"
                /\ UNCHANGED find_requests
           ELSE IF should_fallback_to_condenser(r)
           THEN /\ find_requests' = Append(find_requests, "get_transaction")
                /\ find_pc' = "condenser"
                /\ UNCHANGED find_result
           ELSE /\ find_result' = r
                /\ find_pc' = "done"
                /\ UNCHANGED find_requests
    /\ UNCHANGED <<transaction_id, condenser_result>>
    /\ Frame("find")

(* find_transaction_with_condenser: the match of lines 45-55               *)
CondenserReturns ==
    /\ find_pc = "condenser"
    /\ \E r \in FindOutcomes("get_transaction") :
        /\ condenser_result' = r
        /\ find_result' =
             IF r.kind = "Ok" THEN Ok(TransactionStatus("found_in_block"))
             ELSE IF r.kind = "Rpc" /\ is_unknown_transaction_error(r.err.message)
             THEN Ok(TransactionStatus("unknown"))
             ELSE r
    /\ find_pc' = "done"
    /\ UNCHANGED <<transaction_id, status_result, find_requests>>
    /\ Frame("find")

TNext == FindCalled \/ StatusReturns \/ CondenserReturns

(* ========================= PrivateKey::sign =========================== *)

(* A compact signature is given by the two leading bytes of r (bytes 0, 1) *)
(* and of s (bytes 32, 33) and by its length.                              *)
Compact(r0, r1, s0, s1) == [r |-> <<r0, r1>>, s |-> <<s0, s1>>, len |-> 64]

(* b & 0x80 != 0                                                           *)
HighBit(b) == b \div 128 = 1

is_canonical_compact_OnlyR(signature) ==
    /\ ~HighBit(signature.r[1])
    /\ ~(signature.r[1] = 0 /\ ~HighBit(signature.r[2]))
(* Signature::is_canonical_compact                                         *)
is_canonical_compact(signature) ==
    /\ ~HighBit(signature.r[1])
    /\ ~(signature.r[1] = 0 /\ ~HighBit(signature.r[2]))
    /\ ~HighBit(signature.s[1])
    /\ ~(signature.s[1] = 0 /\ ~HighBit(signature.s[2]))

(* Signature::from_compact                                                 *)
from_compact(compact, recovery_id) ==
    IF recovery_id > 3
    THEN Signing(<<"invalid", "recovery", "id">>)
    ELSE Ok([data0 |-> recovery_id + RecoveryIdOffset,
             compact |-> compact,
             len |-> 1 + compact.len])

(* sha256(digest || [attempts as u8])                                      *)
nonce_seed(dig, att) == <<"sha256", dig, att % U8_RANGE>>

(* The signatures secp256k1 may produce, by their leading bytes.           *)
CompactTable ==
    << Compact(128, 1, 74, 253),     \* r has its high bit set
       Compact(0, 127, 74, 253),     \* r starts 00 7f
       Compact(23, 62, 255, 0),      \* s has its high bit set
       Compact(23, 62, 0, 16),       \* s starts 00 10
       Compact(0, 128, 74, 253),     \* canonical, r starts 00 80
       Compact(127, 255, 127, 255),  \* canonical
       Compact(23, 62, 0, 255) >>    \* canonical, s starts 00 ff

(* sign_ecdsa_recoverable_with_noncedata(..).serialize_compact(): a        *)
(* function of message, key and nonce data alone; the pairs with           *)
(* (msg + sk) % 3 = 0 stand for inputs for which no nonce data gives a     *)
(* canonical signature.                                                    *)
sign_ecdsa_recoverable_with_noncedata(msg, sk, seed) ==
    LET p == (msg + sk) % 3
        byte == seed[3]
    IN [recovery_id |-> (msg + sk + byte) % 4,
        compact |-> CompactTable[IF p = 0 THEN (byte % 4) + 1
                                 ELSE ((p * byte + sk) % Len(CompactTable)) + 1]]

(* u16::saturating_add(1)                                                  *)
SaturatingIncU16(n) == IF n + 1 > U16_MAX THEN U16_MAX ELSE n + 1

Secrets == 1 .. MaxSecret
Digests == 0 .. MaxDigest

KInit ==
    /\ secret \in Secrets
    /\ digest \in Digests
    /\ sign_pc = "idle"
    /\ attempts = 0
    /\ sign_result = NoResult
    /\ rejected = 0

(* sign() is called: lines 245-249 (a 32-byte digest is always a Message)  *)
SignCalled ==
    /\ sign_pc = "idle"
    /\ sign_pc' = "loop"
    /\ attempts' = 0
    /\ UNCHANGED <<secret, digest, sign_result, rejected>>
    /\ Frame("sign")

AttemptsExhausted_Early(n) == n = U8_RANGE
(* attempts == u16::MAX, line 260                                          *)
AttemptsExhausted(n) == n = U16_MAX

(* one turn of the loop, lines 251-264                                     *)
SignAttempt ==
    /\ sign_pc = "loop"
    /\ LET n == SaturatingIncU16(attempts)
           recoverable == sign_ecdsa_recoverable_with_noncedata(
                              digest, secret, nonce_seed(digest, n))
       IN /\ attempts' = n
          /\ IF is_canonical_compact(recoverable.compact)
             THEN /\ sign_result' = from_compact(recoverable.compact,
                                                 recoverable.recovery_id)
                  /\ sign_pc' = "done"
                  /\ UNCHANGED rejected
             ELSE /\ rejected' = rejected + 1
                  /\ IF AttemptsExhausted(n)
                     THEN /\ sign_result' =
                               Signing(<<"unable", "to", "produce",
                                         "canonical", "signature">>)
                          /\ sign_pc' = "done"
                     ELSE UNCHANGED <<sign_result, sign_pc>>
    /\ UNCHANGED <<secret, digest>>
    /\ Frame("sign")

KNext == SignCalled \/ SignAttempt

(* ========================= sign_transaction =========================== *)

(* PrivateKey::sign as a function: the outcome of the loop of lines        *)
(* 250-265, which returns at the first canonical attempt                   *)
sign(sk, msg) ==
    LET Canonical(a) ==
            is_canonical_compact(sign_ecdsa_recoverable_with_noncedata(
                msg, sk, nonce_seed(msg, a)).compact)
    IN IF \E a \in 1 .. U16_MAX : Canonical(a)
       THEN LET first == CHOOSE a \in 1 .. U16_MAX :
                            Canonical(a) /\ \A b \in 1 .. (a - 1) : ~Canonical(b)
                recoverable == sign_ecdsa_recoverable_with_noncedata(
                                   msg, sk, nonce_seed(msg, first))
            IN from_compact(recoverable.compact, recoverable.recovery_id)
       ELSE Signing(<<"unable", "to", "produce", "canonical", "signature">>)

(* Signature::to_hex                                                       *)
to_hex(sig) == <<"hex", sig.data0, sig.compact>>

(* sha256 of chain id bytes followed by transaction bytes, as a digest     *)
(* of Digests                                                              *)
ChainWeight(chain) == IF chain = "mainnet" THEN 1 ELSE 0
sha256_of(chain, tx_bytes) ==
    (ChainWeight(chain) + tx_bytes[2].ref_block_num
       + Len(tx_bytes[2].operations) + 2 * Len(tx_bytes[2].extensions))
    % (MaxDigest + 1)

transaction_digest_NoChainId(tx, chain) ==
    LET tx_bytes == serialize_transaction(tx) IN
    IF tx_bytes.kind # "Ok" THEN tx_bytes
    ELSE Ok(sha256_of("zero", tx_bytes.value))
(* transaction_digest                                                      *)
transaction_digest(tx, chain) ==
    LET tx_bytes == serialize_transaction(tx) IN
    IF tx_bytes.kind # "Ok" THEN tx_bytes
    ELSE Ok(sha256_of(chain, tx_bytes.value))

(* keys.iter().map(|key| key.sign(&digest).map(to_hex)).collect(): the     *)
(* signatures in order, or the first error                                 *)
RECURSIVE CollectSignatures(_, _)
CollectSignatures(ks, msg) ==
    IF ks = <<>> THEN Ok(<<>>)
    ELSE LET sig == sign(Head(ks), msg) IN
         IF sig.kind # "Ok" THEN sig
         ELSE LET rest == CollectSignatures(Tail(ks), msg) IN
              IF rest.kind # "Ok" THEN rest
              ELSE Ok(<<to_hex(sig.value)>> \o rest.value)

(* sign_transaction                                                        *)
sign_transaction(tx, ks, chain) ==
    LET dig == transaction_digest(tx, chain) IN
    IF dig.kind # "Ok" THEN dig
    ELSE LET signatures == CollectSignatures(ks, dig.value) IN
         IF signatures.kind # "Ok" THEN signatures
         ELSE Ok([ref_block_num |-> tx.ref_block_num,
                  ref_block_prefix |-> tx.ref_block_prefix,
                  expiration |-> tx.expiration,
                  operations |-> tx.operations,
                  extensions |-> tx.extensions,
                  signatures |-> signatures.value])

(* inputs                                                                  *)
UnsignedTransactions ==
    [ref_block_num : {0, 1234}, ref_block_prefix : {1122334455},
     expiration : {"2017-07-15T16:51:19", "2200-01-01T00:00:00", "soon"},
     operations : {<<>>, <<"vote">>, <<"vote", "pow2">>},
     extensions : {<<>>, <<"long-pants">>}]

KeyLists == UNION { [1 .. n -> Secrets] : n \in 0 .. MaxKeys }

ChainIds == {"zero", "mainnet"}

XInit ==
    /\ unsigned_tx \in UnsignedTransactions
    /\ keys \in KeyLists
    /\ chain_id \in ChainIds
    /\ signtx_pc = "idle"
    /\ signtx_result = NoResult

SignTransaction ==
    /\ signtx_pc = "idle"
    /\ signtx_result' = sign_transaction(unsigned_tx, keys, chain_id)
    /\ signtx_pc' = "done"
    /\ UNCHANGED <<unsigned_tx, keys, chain_id>>
    /\ Frame("sign_transaction")

XNext == SignTransaction

(* =================== write_varint32 / read_varint32 =================== *)

(* A u32 is kept as its two 16-bit halves, so that all 32 bits are there.  *)
U32(hi, lo) == [hi |-> hi, lo |-> lo]

RECURSIVE Pow2(_)
Pow2(n) == IF n = 0 THEN 1 ELSE 2 * Pow2(n - 1)

RECURSIVE BitOr(_, _)
BitOr(a, b) ==
    IF a = 0 THEN b
    ELSE IF b = 0 THEN a
    ELSE (IF a % 2 = 1 \/ b % 2 = 1 THEN 1 ELSE 0) + 2 * BitOr(a \div 2, b \div 2)

(* value | x                                                               *)
OrU32(a, b) == U32(BitOr(a.hi, b.hi), BitOr(a.lo, b.lo))

(* (x as u32) << sh for a 7-bit x: the bits shifted past bit 31 are lost   *)
ShlU32_LowHalf(x, sh) ==
    U32(0, IF sh < 16 THEN (x * Pow2(sh)) % 65536 ELSE 0)
ShlU32(x, sh) ==
    IF sh < 16
    THEN U32((x * Pow2(sh)) \div 65536, (x * Pow2(sh)) % 65536)
    ELSE U32((x * Pow2(sh - 16)) % 65536, 0)

(* val >>= 7                                                               *)
Shr7(v) == U32(v.hi \div 128, (v.lo \div 128) + (v.hi % 128) * 512)

(* val >= 0x80                                                             *)
AtLeast0x80(v) == v.hi > 0 \/ v.lo >= 128

(* inputs: values on both sides of every length boundary                   *)
VarintValues ==
    { U32(hi, lo) : hi \in {0, 1, 31, 32, 4095, 4096, 32768, 65535},
                    lo \in {0, 1, 127, 128, 300, 16383, 16384, 65535} }

TrailingBytes == { <<>>, <<1>>, <<255, 255>> }

VInit ==
    /\ varint_in \in VarintValues
    /\ trailing \in TrailingBytes
    /\ varint_pc = "write"
    /\ val = varint_in
    /\ buf = <<>>
    /\ cursor = <<>>
    /\ value = U32(0, 0)
    /\ shift = 0
    /\ read_index = 0
    /\ read_result = NoResult

(* write_varint32: one turn of the loop of lines 40-43, or the last push   *)
(* of line 44, after which the buffer and the trailing bytes are read      *)
WriteVarintStep ==
    /\ varint_pc = "write"
    /\ IF AtLeast0x80(val)
       THEN /\ buf' = Append(buf, (val.lo % 128) + 128)
            /\ val' = Shr7(val)
            /\ UNCHANGED <<varint_pc, cursor>>
       ELSE /\ buf' = Append(buf, val.lo % 256)
            /\ cursor' = Append(buf, val.lo % 256) \o trailing
            /\ varint_pc' = "read"
            /\ UNCHANGED val
    /\ UNCHANGED <<varint_in, trailing, value, shift, read_index, read_result>>
    /\ Frame("varint")

ShiftTooLarge_Early(sh) == sh > 21
(* shift > 28, line 217                                                    *)
ShiftTooLarge(sh) == sh > 28

(* read_varint32: one turn of the loop of lines 208-222, or the return of  *)
(* line 224                                                                *)
ReadVarintStep ==
    /\ varint_pc = "read"
    /\ IF read_index < Len(cursor)
       THEN LET byte == cursor[read_index + 1]
                v == OrU32(value, ShlU32(byte % 128, shift))
            IN /\ value' = v
               /\ read_index' = read_index + 1
               /\ IF byte \div 128 = 0
                  THEN /\ cursor' = SubSeq(cursor, read_index + 2, Len(cursor))
                       /\ read_result' = Ok(v)
                       /\ varint_pc' = "done"
                       /\ UNCHANGED shift
                  ELSE /\ shift' = shift + 7
                       /\ IF ShiftTooLarge(shift + 7)
                          THEN /\ read_result' = Serialization
                               /\ varint_pc' = "done"
                          ELSE UNCHANGED <<read_result, varint_pc>>
                       /\ UNCHANGED cursor
       ELSE /\ read_result' = Serialization
            /\ varint_pc' = "done"
            /\ UNCHANGED <<value, read_index, shift, cursor>>
    /\ UNCHANGED <<varint_in, trailing, val, buf>>
    /\ Frame("varint")

VNext == WriteVarintStep \/ ReadVarintStep

(* ================= Asset::from_string / Display for Asset ============== *)

(* Numbers wider than the checker's integers are sequences of decimal      *)
(* digits without leading zeros; an i64 is a sign and such a magnitude.    *)
RECURSIVE StripZeros(_)
StripZeros(d) ==
    IF d = <<>> THEN <<0>>
    ELSE IF Len(d) > 1 /\ Head(d) = 0 THEN StripZeros(Tail(d))
    ELSE d

I64(neg, mag) == [neg |-> neg, mag |-> mag]
I64_MAX == <<9, 2, 2, 3, 3, 7, 2, 0, 3, 6, 8, 5, 4, 7, 7, 5, 8, 0, 7>>
I64_MIN_ABS == <<9, 2, 2, 3, 3, 7, 2, 0, 3, 6, 8, 5, 4, 7, 7, 5, 8, 0, 8>>

(* a <= b on magnitudes                                                    *)
LessEq(a, b) ==
    \/ Len(a) < Len(b)
    \/ /\ Len(a) = Len(b)
       /\ \/ a = b
          \/ \E i \in 1 .. Len(a) :
                a[i] < b[i] /\ \A j \in 1 .. (i - 1) : a[j] = b[j]

(* abs / 10^p and abs % 10^p                                               *)
DivPow10(d, p) == IF Len(d) <= p THEN <<0>> ELSE SubSeq(d, 1, Len(d) - p)
ModPow10(d, p) ==
    StripZeros(IF Len(d) <= p THEN d ELSE SubSeq(d, Len(d) - p + 1, Len(d)))

(* {n:0width$}                                                             *)
PadZeros(d, width) ==
    IF Len(d) >= width THEN d ELSE [i \in 1 .. (width - Len(d)) |-> 0] \o d

(* whole * 10^p + fractional, for a fractional below 10^p                  *)
MulPow10Add(whole, p, fractional) ==
    StripZeros(whole \o PadZeros(fractional, p))

DigitChars == <<"0", "1", "2", "3", "4", "5", "6", "7", "8", "9">>
DigitChar(d) == DigitChars[d + 1]
is_ascii_digit(ch) == \E i \in 1 .. Len(DigitChars) : DigitChars[i] = ch
CharDigit(ch) == (CHOOSE i \in 1 .. Len(DigitChars) : DigitChars[i] = ch) - 1
ToChars(d) == [i \in 1 .. Len(d) |-> DigitChar(d[i])]

(* AssetSymbol and AssetSymbol::as_str                                     *)
Hive == [tag |-> "Hive", name |-> <<>>]
Hbd == [tag |-> "Hbd", name |-> <<>>]
Vests == [tag |-> "Vests", name |-> <<>>]
Custom(name) == [tag |-> "Custom", name |-> name]
as_str(symbol) ==
    CASE symbol.tag = "Hive" -> <<"H", "I", "V", "E">>
      [] symbol.tag = "Hbd" -> <<"H", "B", "D">>
      [] symbol.tag = "Vests" -> <<"V", "E", "S", "T", "S">>
      [] OTHER -> symbol.name

Asset(amount, precision, symbol) ==
    [amount |-> amount, precision |-> precision, symbol |-> symbol]

(* 10_i64.pow overflows from this exponent on                              *)
I64PowLimit == 19
(* 10^p is a multiple of 2^64 from this exponent on                        *)
U64ZeroPowLimit == 64

(* Display for Asset: the outcomes the build can produce. Up to 10^18 the  *)
(* scale is exact. Beyond, a build with overflow checks panics in pow and  *)
(* a build without them wraps the scale, which is 0 from 10^64 on, where   *)
(* the division panics.                                                    *)
fmt(a, overflow_checks) ==
    IF a.precision >= I64PowLimit
    THEN IF overflow_checks \/ a.precision >= U64ZeroPowLimit
         THEN Panic
         ELSE Ok(<<"wrapped", " ">> \o as_str(a.symbol))
    ELSE LET minus == IF a.amount.neg THEN <<"-">> ELSE <<>>
             abs == a.amount.mag
             whole == DivPow10(abs, a.precision)
             fraction == ModPow10(abs, a.precision)
         IN IF a.precision = 0
            THEN Ok(minus \o ToChars(whole) \o <<" ">> \o as_str(a.symbol))
            ELSE Ok(minus \o ToChars(whole) \o <<".">>
                    \o ToChars(PadZeros(fraction, a.precision))
                    \o <<" ">> \o as_str(a.symbol))
to_string_NoPadding(a) ==
    LET abs == a.amount.mag
        whole == DivPow10(abs, a.precision)
        fraction == ModPow10(abs, a.precision)
    IN { Ok((IF a.amount.neg THEN <<"-">> ELSE <<>>) \o ToChars(whole)
             \o <<".">> \o ToChars(fraction)
             \o <<" ">> \o as_str(a.symbol)) }
to_string(a) == { fmt(a, overflow_checks) : overflow_checks \in BOOLEAN }

(* str::split_whitespace                                                   *)
RECURSIVE SplitFrom(_, _, _)
SplitFrom(chars, word, words) ==
    IF chars = <<>>
    THEN IF word = <<>> THEN words ELSE Append(words, word)
    ELSE IF Head(chars) = " "
    THEN SplitFrom(Tail(chars), <<>>,
                   IF word = <<>> THEN words ELSE Append(words, word))
    ELSE SplitFrom(Tail(chars), Append(word, Head(chars)), words)
split_whitespace(chars) == SplitFrom(chars, <<>>, <<>>)

(* str::to_ascii_uppercase                                                 *)
UpperChar(ch) ==
    CASE ch = "h" -> "H" [] ch = "i" -> "I" [] ch = "v" -> "V"
      [] ch = "e" -> "E" [] ch = "s" -> "S" [] ch = "t" -> "T"
      [] ch = "b" -> "B" [] ch = "d" -> "D" [] ch = "m" -> "M"
      [] OTHER -> ch
to_ascii_uppercase(chars) == [i \in 1 .. Len(chars) |-> UpperChar(chars[i])]

(* str::strip_prefix(ch), the string itself when it has no such prefix     *)
StripPrefix(chars, ch) ==
    IF chars # <<>> /\ Head(chars) = ch THEN Tail(chars) ELSE chars

(* str::split_once('.'): the position of the first point, 0 for None       *)
PointAt(chars) ==
    IF \E i \in 1 .. Len(chars) : chars[i] = "."
    THEN CHOOSE i \in 1 .. Len(chars) :
             chars[i] = "." /\ \A j \in 1 .. (i - 1) : chars[j] # "."
    ELSE 0

(* known_symbol_precision, an Option as a sequence of length 0 or 1        *)
known_symbol_precision(symbol) ==
    IF symbol \in { <<"H", "I", "V", "E">>, <<"H", "B", "D">>,
                    <<"S", "T", "E", "E", "M">>, <<"S", "B", "D">>,
                    <<"T", "E", "S", "T", "S">>, <<"T", "B", "D">> }
    THEN <<3>>
    ELSE IF symbol = <<"V", "E", "S", "T", "S">> THEN <<6>>
    ELSE <<>>

(* parse_precision: Ok(length of what follows the first point)             *)
parse_precision(amount) ==
    LET v == StripPrefix(StripPrefix(amount, "+"), "-")
        precision == IF PointAt(v) = 0 THEN 0 ELSE Len(v) - PointAt(v)
    IN IF precision > 255 THEN InvalidAsset ELSE Ok(precision)

(* str::parse::<i128> of a string of digits                                *)
ParseI128(chars) ==
    IF chars = <<>> \/ Len(chars) > 38 THEN InvalidAsset
    ELSE Ok(StripZeros([i \in 1 .. Len(chars) |-> CharDigit(chars[i])]))

(* parse_amount                                                            *)
parse_amount(raw, precision) ==
    LET negative == raw # <<>> /\ Head(raw) = "-"
        body == IF negative THEN Tail(raw) ELSE StripPrefix(raw, "+")
        at == PointAt(body)
        whole_raw == IF at = 0 THEN body ELSE SubSeq(body, 1, at - 1)
        fractional_raw ==
            IF at = 0 THEN <<>> ELSE SubSeq(body, at + 1, Len(body))
        whole == ParseI128(whole_raw)
        fractional ==
            IF fractional_raw = <<>> THEN Ok(<<0>>) ELSE ParseI128(fractional_raw)
    IN IF raw = <<>> \/ body = <<>> THEN InvalidAsset
       ELSE IF PointAt(fractional_raw) # 0 THEN InvalidAsset
       ELSE IF \E i \in 1 .. Len(whole_raw) : ~is_ascii_digit(whole_raw[i])
       THEN InvalidAsset
       ELSE IF \E i \in 1 .. Len(fractional_raw) :
                  ~is_ascii_digit(fractional_raw[i])
       THEN InvalidAsset
       ELSE IF Len(fractional_raw) # precision THEN InvalidAsset
       ELSE IF precision > 38 THEN InvalidAsset
       ELSE IF whole.kind # "Ok" THEN InvalidAsset
       ELSE IF fractional.kind # "Ok" THEN InvalidAsset
       ELSE LET amount == MulPow10Add(whole.value, precision, fractional.value)
            IN IF amount = <<0>> THEN Ok(I64(FALSE, amount))
               ELSE IF LessEq(amount, IF negative THEN I64_MIN_ABS ELSE I64_MAX)
               THEN Ok(I64(negative, amount))
               ELSE InvalidAsset

(* Asset::from_string                                                      *)
from_string(chars) ==
    LET parts == split_whitespace(chars) IN
    IF Len(parts) # 2 THEN InvalidAsset
    ELSE LET amount_raw == parts[1]
             symbol_upper == to_ascii_uppercase(parts[2])
             expected_precision == known_symbol_precision(symbol_upper)
             precision == parse_precision(amount_raw)
         IN IF precision.kind # "Ok" THEN InvalidAsset
            ELSE IF /\ expected_precision # <<>>
                    /\ precision.value # expected_precision[1]
            THEN InvalidAsset
            ELSE LET amount == parse_amount(amount_raw, precision.value) IN
                 IF amount.kind # "Ok" THEN InvalidAsset
                 ELSE Ok(Asset(amount.value, precision.value,
                      CASE symbol_upper \in { <<"H", "I", "V", "E">>,
                                              <<"S", "T", "E", "E", "M">>,
                                              <<"T", "E", "S", "T", "S">> }
                               -> Hive
                        [] symbol_upper \in { <<"H", "B", "D">>,
                                              <<"S", "B", "D">>,
                                              <<"T", "B", "D">> }
                               -> Hbd
                        [] symbol_upper = <<"V", "E", "S", "T", "S">> -> Vests
                        [] OTHER -> Custom(symbol_upper)))

(* inputs: amounts from i64::MIN to i64::MAX                               *)
Amounts ==
    { I64(FALSE, <<0>>), I64(FALSE, <<1>>), I64(TRUE, <<1>>),
      I64(FALSE, <<9, 9, 9>>), I64(FALSE, <<1, 0, 0, 0>>),
      I64(TRUE, <<1, 0, 0, 3, 3, 3>>), I64(FALSE, <<1, 0, 0, 0, 0, 0, 0>>),
      I64(TRUE, <<9, 9, 9, 9, 9, 9>>),
      I64(FALSE, <<1, 2, 3, 4, 5, 6, 7, 8, 9, 0, 0, 0>>),
      I64(FALSE, I64_MAX), I64(TRUE, I64_MAX), I64(TRUE, I64_MIN_ABS) }

KnownAssets ==
    { Asset(amount, 3, Hive) : amount \in Amounts }
    \cup { Asset(amount, 3, Hbd) : amount \in Amounts }
    \cup { Asset(amount, 6, Vests) : amount \in Amounts }

NoAsset == Asset(I64(FALSE, <<0>>), 0, Custom(<<>>))

(* inputs: strings "<sign><whole>[.<fraction>] <symbol>"                   *)
SymbolTokens ==
    { <<"H", "I", "V", "E">>, <<"h", "i", "v", "e">>, <<"H", "B", "D">>,
      <<"S", "T", "E", "E", "M">>, <<"S", "B", "D">>,
      <<"T", "E", "S", "T", "S">>, <<"T", "B", "D">>,
      <<"V", "E", "S", "T", "S">>, <<"v", "e", "s", "t", "s">>,
      <<"C", "U", "S", "T", "O", "M">> }
FractionTokens ==
    { <<>>, <<".">>, <<".", "5">>, <<".", "0", "0">>, <<".", "0", "0", "1">>,
      <<".", "1", "2", "3", "4">>, <<".", "7", "8", "9", "0", "0", "0">>,
      <<".", "0", "0", "0", "0", "0", "0", "0">> }
TextParts ==
    [sign : {<<>>, <<"-">>, <<"+">>},
     whole : {<<"0">>, <<"1", "0", "0">>},
     fraction : FractionTokens,
     symbol : SymbolTokens]
TextOf(parts) ==
    parts.sign \o parts.whole \o parts.fraction \o <<" ">> \o parts.symbol
NoParts == [sign |-> <<>>, whole |-> <<>>, fraction |-> <<>>, symbol |-> <<>>]

AInit ==
    /\ parsed = NoResult
    /\ \/ /\ asset \in KnownAssets
          /\ asset_pc = "format"
          /\ asset_text = <<>>
          /\ text_parts = NoParts
       \/ /\ text_parts \in TextParts
          /\ asset_text = TextOf(text_parts)
          /\ asset_pc = "parse"
          /\ asset = NoAsset

(* asset.to_string()                                                       *)
FormatAsset ==
    /\ asset_pc = "format"
    /\ \E r \in to_string(asset) :
        IF r.kind = "Ok"
        THEN asset_text' = r.value /\ asset_pc' = "parse" /\ UNCHANGED parsed
        ELSE parsed' = r /\ asset_pc' = "done" /\ UNCHANGED asset_text
    /\ UNCHANGED <<asset, text_parts>>
    /\ Frame("asset")

(* Asset::from_string(text)                                                *)
ParseAsset ==
    /\ asset_pc = "parse"
    /\ parsed' = from_string(asset_text)
    /\ asset_pc' = "done"
    /\ UNCHANGED <<asset, asset_text, text_parts>>
    /\ Frame("asset")

ANext == FormatAsset \/ ParseAsset

(* ====================== RC cost estimator ============================= *)

RESOURCE_HISTORY_BYTES == "resource_history_bytes"
RESOURCE_NEW_ACCOUNTS == "resource_new_accounts"
RESOURCE_MARKET_BYTES == "resource_market_bytes"
RESOURCE_STATE_BYTES == "resource_state_bytes"
RESOURCE_EXECUTION_TIME == "resource_execution_time"
KNOWN_RESOURCE_NAMES ==
    << RESOURCE_HISTORY_BYTES, RESOURCE_NEW_ACCOUNTS, RESOURCE_MARKET_BYTES,
       RESOURCE_STATE_BYTES, RESOURCE_EXECUTION_TIME >>

(* BTreeMap::get(key).copied().unwrap_or(0) on a map kept as a function    *)
GetOr0(map, key) == IF key \in DOMAIN map THEN map[key] ELSE 0

(* state_size and exec_time                                                *)
state_size(params, key) == GetOr0(params.size_info.resource_state_bytes, key)
exec_time(params, key) == GetOr0(params.size_info.resource_execution_time, key)

(* An operation is given by its kind and by the length of its serialized   *)
(* form; serialize_transaction fails on pow.                               *)
RcOp(kind, len) == [kind |-> kind, serialized_len |-> len]

(* A date string is given by whether it parses as RFC 3339 and by the      *)
(* seconds since 1970 it then denotes.                                     *)
DateText(valid, seconds) == [valid |-> valid, seconds |-> seconds]

(* parse_hive_time                                                         *)
parse_hive_time(date) == IF date.valid THEN Ok(date.seconds) ELSE Serialization

(* write_date succeeds on a string that parses to a timestamp of 0 or     *)
(* more (the dates of the inputs are all below 2^32)                       *)
DateIsWritten(date) == date.valid /\ date.seconds >= 0

(* a create_proposal: its dates and subject.len() + permlink.len()         *)
CreateProposalOp(start_date, end_date, text_len) ==
    [kind |-> "create_proposal", serialized_len |-> 20 + text_len,
     start_date |-> start_date, end_date |-> end_date, text_len |-> text_len]

SecondsPerHour == 3600
(* proposal_lifetime_hours; now is what Utc::now() reads                   *)
proposal_lifetime_hours(start_date, end_date, now) ==
    LET start == parse_hive_time(start_date)
        end == parse_hive_time(end_date)
    IN IF start.kind = "Ok" /\ end.kind = "Ok" /\ end.value - start.value > 0
       THEN (end.value - start.value + (SecondsPerHour - 1)) \div SecondsPerHour
       ELSE IF end.kind = "Ok" /\ end.value - now > 0
       THEN (end.value - now + (SecondsPerHour - 1)) \div SecondsPerHour
       ELSE 1

RECURSIVE SumLen(_)
SumLen(ops) ==
    IF ops = <<>> THEN 0 ELSE Head(ops).serialized_len + SumLen(Tail(ops))

(* serialize_transaction(..).len() of the transaction of lines 470-476:    *)
(* u16, u32, u32 date, varint count, operations, varint 0                  *)
SerializedLen(ops) ==
    IF \E i \in 1 .. Len(ops) :
           \/ ops[i].kind \in {"pow", "pow2"}
           \/ /\ ops[i].kind = "create_proposal"
              /\ \/ ~DateIsWritten(ops[i].start_date)
                 \/ ~DateIsWritten(ops[i].end_date)
    THEN Serialization
    ELSE Ok(2 + 4 + 4 + 1 + SumLen(ops) + 1)

estimate_signed_transaction_size_Unsigned(ops) == SerializedLen(ops)
(* estimate_signed_transaction_size                                        *)
estimate_signed_transaction_size(ops) ==
    LET serialized == SerializedLen(ops) IN
    IF serialized.kind # "Ok" THEN serialized
    ELSE Ok(serialized.value + SIGNATURE_VECTOR_OVERHEAD_BYTES
              + SIGNATURE_SIZE_BYTES * DEFAULT_SIGNATURE_COUNT)

ResourceUsage(h, n, m, st, e) ==
    [history_bytes |-> h, new_accounts |-> n, market_bytes |-> m,
     state_bytes |-> st, execution_time |-> e]

(* ResourceUsage::by_name                                                  *)
by_name(usage, resource_name) ==
    CASE resource_name = RESOURCE_HISTORY_BYTES -> usage.history_bytes
      [] resource_name = RESOURCE_NEW_ACCOUNTS -> usage.new_accounts
      [] resource_name = RESOURCE_MARKET_BYTES -> usage.market_bytes
      [] resource_name = RESOURCE_STATE_BYTES -> usage.state_bytes
      [] resource_name = RESOURCE_EXECUTION_TIME -> usage.execution_time
      [] OTHER -> 0

(* the loop of lines 204-450, for the operation kinds of the inputs        *)
RECURSIVE OpsUsage(_, _, _)
OpsUsage(ops, params, now) ==
    IF ops = <<>>
    THEN [state_bytes |-> 0, execution_time |-> 0, new_account_ops |-> 0,
          market_op_count |-> 0]
    ELSE LET rest == OpsUsage(Tail(ops), params, now)
             kind == Head(ops).kind
         IN CASE kind = "vote" ->
                   [rest EXCEPT !.state_bytes = @ + state_size(params, "vote_size"),
                                !.execution_time = @ + exec_time(params, "vote_time")]
              [] kind = "transfer" ->
                   [rest EXCEPT !.execution_time =
                                    @ + exec_time(params, "transfer_time"),
                                !.market_op_count = @ + 1]
              [] kind = "create_proposal" ->
                   [rest EXCEPT !.state_bytes =
                                    @ + (state_size(params,
                                                    "create_proposal_base_size")
                                           + state_size(params,
                                               "create_proposal_subject_permlink_char_size")
                                               * Head(ops).text_len)
                                          * proposal_lifetime_hours(
                                                Head(ops).start_date,
                                                Head(ops).end_date, now),
                                !.execution_time =
                                    @ + exec_time(params, "create_proposal_time")]
              [] kind = "claim_account_free" ->
                   [rest EXCEPT !.execution_time =
                                    @ + exec_time(params, "claim_account_time"),
                                !.new_account_ops = @ + 1]
              [] OTHER -> rest

(* estimate_resource_usage                                                 *)
estimate_resource_usage(ops, params, now) ==
    LET tx_size == estimate_signed_transaction_size(ops) IN
    IF tx_size.kind # "Ok" THEN tx_size
    ELSE LET u == OpsUsage(ops, params, now) IN
         Ok(ResourceUsage(
              tx_size.value,
              u.new_account_ops,
              IF u.market_op_count > 0 THEN tx_size.value ELSE 0,
              u.state_bytes + state_size(params, "transaction_base_size")
                                * DEFAULT_EXPIRATION_HOURS,
              u.execution_time + exec_time(params, "transaction_time")
                + exec_time(params, "verify_authority_time")
                    * DEFAULT_SIGNATURE_COUNT))

(* the keys of a map that are not known names, in the order of the map     *)
(* (the inputs have at most one such key)                                  *)
RECURSIVE KeysInOrder(_)
KeysInOrder(keyset) ==
    IF keyset = {} THEN <<>>
    ELSE LET k == CHOOSE k \in keyset : TRUE
         IN <<k>> \o KeysInOrder(keyset \ {k})

(* ordered_resource_names                                                  *)
ordered_resource_names(params) ==
    IF params.resource_names # <<>> THEN params.resource_names
    ELSE KNOWN_RESOURCE_NAMES
           \o KeysInOrder({k \in DOMAIN params.resource_params :
                             \A i \in 1 .. Len(KNOWN_RESOURCE_NAMES) :
                                 KNOWN_RESOURCE_NAMES[i] # k})

(* pool_regen_share                                                        *)
pool_regen_share(regen, share_basis_points) ==
    IF regen <= 0 \/ share_basis_points <= 0 THEN 0
    ELSE (regen * share_basis_points) \div RC_SHARE_BASIS_POINTS

(* numerator >>= shift as usize, on a u128: a shift of 128 bits or more is *)
(* an overflow, which panics in a build that checks overflow and shifts by *)
(* the low seven bits of the amount in a build that does not               *)
U128_BITS == 128
ShrU128(x, amount, overflow_checks) ==
    IF amount < U128_BITS THEN Ok(x \div Pow2(amount))
    ELSE IF overflow_checks THEN Panic
    ELSE Ok(x \div Pow2(amount % U128_BITS))

(* compute_resource_cost, for resource_count >= 0                          *)
compute_resource_cost(params, current_pool, resource_count, rc_regen_share, overflow_checks) ==
    IF rc_regen_share <= 0 \/ resource_count = 0 THEN Ok(0)
    ELSE LET shifted == ShrU128(rc_regen_share * params.coeff_a, params.shift,
                                overflow_checks)
             pool_part == IF current_pool > 0 THEN current_pool ELSE 0
             denominator == params.coeff_b + pool_part
         IN IF shifted.kind # "Ok" THEN shifted
            ELSE IF denominator = 0 THEN Other
            ELSE Ok((((shifted.value + 1) * resource_count) \div denominator)
                      + 1)

(* the loop of lines 151-191 of calculate_cost_from_state                  *)
RECURSIVE CostLoop(_, _, _, _, _, _, _, _)
CostLoop(names, total_cost, usage, params, pool, regen, shares, overflow_checks) ==
    IF names = <<>> THEN Ok(total_cost)
    ELSE LET resource_name == Head(names)
             resource_usage == by_name(usage, resource_name)
             skip == CostLoop(Tail(names), total_cost, usage, params, pool,
                              regen, shares, overflow_checks)
         IN IF resource_usage <= 0 THEN skip
            ELSE IF resource_name \notin DOMAIN params.resource_params THEN Other
            ELSE LET resource_params == params.resource_params[resource_name]
                     scaled_usage == resource_usage * resource_params.resource_unit
                     share_bp == GetOr0(shares, resource_name)
                     regen_share == pool_regen_share(regen, share_bp)
                     pool_amount == GetOr0(pool, resource_name)
                     resource_cost == compute_resource_cost(
                         resource_params, pool_amount, scaled_usage, regen_share,
                         overflow_checks)
                 IN IF regen_share <= 0 THEN skip
                    ELSE IF resource_cost.kind # "Ok" THEN resource_cost
                    ELSE CostLoop(Tail(names), total_cost + resource_cost.value,
                                  usage, params, pool, regen, shares,
                                  overflow_checks)

(* calculate_cost_from_state                                               *)
calculate_cost_from_state(operations, params, pool, regen, shares, overflow_checks, now) ==
    IF regen <= 0 THEN Ok(0)
    ELSE LET usage == estimate_resource_usage(operations, params, now) IN
         IF usage.kind # "Ok" THEN usage
         ELSE CostLoop(ordered_resource_names(params), 0, usage.value, params,
                       pool, regen, shares, overflow_checks)

(* inputs                                                                  *)
(* the lists below hold no create_proposal: the clock is not read, and is  *)
(* taken at 1970                                                           *)
ClockUnread == 0
ConstMap(names, v) == [n \in names |-> v]
KnownNames == {KNOWN_RESOURCE_NAMES[i] : i \in 1 .. Len(KNOWN_RESOURCE_NAMES)}

RcOperationLists ==
    { <<>>, <<RcOp("vote", 15)>>, <<RcOp("transfer", 40)>>,
      <<RcOp("claim_account_free", 30), RcOp("vote", 15)>>,
      <<RcOp("pow", 0)>> }

RcResourceParams ==
    [resource_unit : {0, 1}, coeff_a : {1, 100}, coeff_b : {0, 100},
     shift : {0, 3, 131}]

RcSizeInfos ==
    { [resource_state_bytes |-> ConstMap({}, 0),
       resource_execution_time |-> ConstMap({}, 0)],
      [resource_state_bytes |->
           ConstMap({"transaction_base_size", "vote_size"}, 100),
       resource_execution_time |->
           ConstMap({"transaction_time", "verify_authority_time", "vote_time",
                     "transfer_time", "claim_account_time"}, 5)] }

RcParamsValues ==
    { [resource_names |-> names,
       resource_params |-> ConstMap(present, rp),
       size_info |-> si] :
        names \in { <<>>, <<RESOURCE_STATE_BYTES, RESOURCE_HISTORY_BYTES>> },
        present \in { KnownNames, KnownNames \ {RESOURCE_HISTORY_BYTES},
                      KnownNames \cup {"resource_custom"} },
        rp \in RcResourceParams,
        si \in RcSizeInfos }

RcPools == { ConstMap({}, 0), ConstMap(KnownNames, 50), ConstMap(KnownNames, -10) }

RcShares ==
    { ConstMap({}, 0), ConstMap(KnownNames, 10000), ConstMap(KnownNames, 1) }

RcRegens == {-1, 0, 5000, 10000}

RInit ==
    /\ rc_operations \in RcOperationLists
    /\ rc_params \in RcParamsValues
    /\ rc_pool \in RcPools
    /\ rc_regen \in RcRegens
    /\ rc_shares \in RcShares
    /\ rc_checks \in BOOLEAN
    /\ rc_pc = "idle"
    /\ rc_result = NoResult

CalculateCost ==
    /\ rc_pc = "idle"
    /\ rc_result' = calculate_cost_from_state(rc_operations, rc_params, rc_pool,
                                              rc_regen, rc_shares, rc_checks,
                                              ClockUnread)
    /\ rc_pc' = "done"
    /\ UNCHANGED <<rc_operations, rc_params, rc_pool, rc_regen, rc_shares,
                   rc_checks>>
    /\ Frame("rc")

RNext == CalculateCost

(* ===================== memo::encode_with_nonce / decode ================ *)

(* A String is the sequence of its code points, a Vec<u8> the sequence of  *)
(* its bytes.                                                              *)
NumberSign == 35
Zeros(n) == [i \in 1 .. n |-> 0]

RECURSIVE LeadingCount(_, _, _)
LeadingCount(s, x, i) ==
    IF i > Len(s) \/ s[i] # x THEN i - 1 ELSE LeadingCount(s, x, i + 1)

(* value of a character in the base58 alphabet                             *)
(* 123456789ABCDEFGHJKLMNPQRSTUVWXYZabcdefghijkmnopqrstuvwxyz, -1 outside  *)
Base58Digit(c) ==
    IF c \in 49 .. 57 THEN c - 49
    ELSE IF c \in 65 .. 72 THEN c - 56
    ELSE IF c \in 74 .. 78 THEN c - 57
    ELSE IF c \in 80 .. 90 THEN c - 58
    ELSE IF c \in 97 .. 107 THEN c - 64
    ELSE IF c \in 109 .. 122 THEN c - 65
    ELSE -1
Base58Char(d) ==
    IF d < 9 THEN d + 49
    ELSE IF d < 17 THEN d + 56
    ELSE IF d < 22 THEN d + 57
    ELSE IF d < 33 THEN d + 58
    ELSE IF d < 44 THEN d + 64
    ELSE d + 65

(* Big numbers are kept as big-endian sequences of 24-bit limbs, three    *)
(* bytes to a limb, so that a limb times 58 stays a machine integer.       *)
Limb == 256 * 256 * 256

LimbsOf(bytes) ==
    LET pad == (3 - (Len(bytes) % 3)) % 3
        b == Zeros(pad) \o bytes
    IN [i \in 1 .. (Len(b) \div 3) |->
           b[3 * i - 2] * 65536 + b[3 * i - 1] * 256 + b[3 * i]]

BytesOf(limbs) ==
    LET b == [i \in 1 .. (3 * Len(limbs)) |->
                 LET l == limbs[(i + 2) \div 3]
                 IN IF i % 3 = 1 THEN l \div 65536
                    ELSE IF i % 3 = 2 THEN (l \div 256) % 256
                    ELSE l % 256]
        z == LeadingCount(b, 0, 1)
    IN SubSeq(b, z + 1, Len(b))

(* The loops of the conversion are run a block of turns at a time, which   *)
(* keeps the evaluation shallow.                                           *)
Least(a, b) == IF a < b THEN a ELSE b

(* long division of a number by 58, limbs i .. last: the quotient so far   *)
(* without leading zero limbs, and the remainder                           *)
RECURSIVE DivBy58Block(_, _, _, _, _)
DivBy58Block(num, i, last, rem, quot) ==
    IF i > last THEN [q |-> quot, r |-> rem]
    ELSE LET cur == rem * Limb + num[i]
         IN IF cur < 0 THEN [q |-> quot, r |-> rem]
            ELSE DivBy58Block(num, i + 1, last, cur % 58,
                              IF quot = <<>> /\ cur \div 58 = 0 THEN quot
                              ELSE Append(quot, cur \div 58))

RECURSIVE DivBy58(_, _, _, _)
DivBy58(num, i, rem, quot) ==
    IF i > Len(num) THEN [q |-> quot, r |-> rem]
    ELSE LET part == DivBy58Block(num, i, Least(i + 7, Len(num)), rem, quot)
         IN IF part.r < 0 THEN part
            ELSE DivBy58(num, i + 8, part.r, part.q)

RECURSIVE ToBase58Block(_, _, _)
ToBase58Block(num, text, turns) ==
    IF num = <<>> \/ turns = 0 \/ Len(text) < 0
    THEN [num |-> num, text |-> text]
    ELSE LET d == DivBy58(num, 1, 0, <<>>)
         IN ToBase58Block(d.q, <<Base58Char(d.r)>> \o text, turns - 1)

RECURSIVE ToBase58(_, _)
ToBase58(num, text) ==
    IF num = <<>> THEN text
    ELSE LET part == ToBase58Block(num, text, 12)
         IN IF Len(part.text) < 0 THEN text
            ELSE ToBase58(part.num, part.text)

(* bs58::encode(bytes).into_string(): a '1' for every leading zero byte,   *)
(* then the digits of the rest read as one big-endian number               *)
bs58_encode(bytes) ==
    LET z == LeadingCount(bytes, 0, 1)
    IN [i \in 1 .. z |-> 49]
           \o ToBase58(LimbsOf(SubSeq(bytes, z + 1, Len(bytes))), <<>>)

(* num * 58 + carry, from limb i down to limb first                        *)
RECURSIVE MulAdd58Block(_, _, _, _, _)
MulAdd58Block(num, i, first, carry, out) ==
    IF i < first \/ Len(out) < 0 THEN [carry |-> carry, out |-> out]
    ELSE LET cur == num[i] * 58 + carry
         IN IF cur < 0 THEN [carry |-> carry, out |-> out]
            ELSE MulAdd58Block(num, i - 1, first, cur \div Limb,
                               <<cur % Limb>> \o out)

RECURSIVE MulAdd58(_, _, _, _)
MulAdd58(num, i, carry, out) ==
    IF i = 0 THEN (IF carry = 0 THEN out ELSE <<carry>> \o out)
    ELSE LET first == IF i > 8 THEN i - 7 ELSE 1
             part == MulAdd58Block(num, i, first, carry, out)
         IN IF part.carry < 0 THEN out
            ELSE MulAdd58(num, first - 1, part.carry, part.out)

RECURSIVE FromBase58Block(_, _, _, _)
FromBase58Block(text, i, last, num) ==
    IF i > last \/ Len(num) < 0 THEN num
    ELSE FromBase58Block(text, i + 1, last,
                         MulAdd58(num, Len(num), Base58Digit(text[i]), <<>>))

RECURSIVE FromBase58(_, _, _)
FromBase58(text, i, num) ==
    IF i > Len(text) \/ Len(num) < 0 THEN num
    ELSE FromBase58(text, i + 12,
                    FromBase58Block(text, i, Least(i + 11, Len(text)), num))

(* bs58::decode(text).into_vec(): an error on a character outside the      *)
(* alphabet, else a zero byte for every leading '1' and the bytes of the   *)
(* number the other digits spell                                           *)
bs58_decode(text) ==
    IF \E i \in 1 .. Len(text) : Base58Digit(text[i]) < 0
    THEN [ok |-> FALSE, bytes |-> <<>>]
    ELSE LET z == LeadingCount(text, 49, 1)
         IN [ok |-> TRUE,
             bytes |-> Zeros(z) \o BytesOf(FromBase58(text, z + 1, <<>>))]

(* str::as_bytes: the UTF-8 encoding                                       *)
Utf8Of(c) ==
    IF c < 128 THEN <<c>>
    ELSE IF c < 2048 THEN <<192 + (c \div 64), 128 + (c % 64)>>
    ELSE IF c < 65536
         THEN <<224 + (c \div 4096), 128 + ((c \div 64) % 64), 128 + (c % 64)>>
    ELSE <<240 + (c \div 262144), 128 + ((c \div 4096) % 64),
           128 + ((c \div 64) % 64), 128 + (c % 64)>>

RECURSIVE as_bytes(_)
as_bytes(s) == IF s = <<>> THEN <<>> ELSE Utf8Of(Head(s)) \o as_bytes(Tail(s))

(* String::from_utf8: the code points, or an error on a byte sequence that *)
(* is not well-formed UTF-8 (overlong forms and surrogates included)       *)
Continuation(b, i, lo, hi) == i <= Len(b) /\ b[i] >= lo /\ b[i] <= hi

RECURSIVE from_utf8_at(_, _, _)
from_utf8_at(b, i, out) ==
    IF i > Len(b) THEN [ok |-> TRUE, text |-> out]
    ELSE LET b0 == b[i]
             bad == [ok |-> FALSE, text |-> <<>>]
         IN IF b0 < 128 THEN from_utf8_at(b, i + 1, Append(out, b0))
            ELSE IF b0 \in 194 .. 223
            THEN IF Continuation(b, i + 1, 128, 191)
                 THEN from_utf8_at(b, i + 2,
                          Append(out, (b0 - 192) * 64 + (b[i + 1] - 128)))
                 ELSE bad
            ELSE IF b0 \in 224 .. 239
            THEN IF /\ Continuation(b, i + 1,
                                    IF b0 = 224 THEN 160 ELSE 128,
                                    IF b0 = 237 THEN 159 ELSE 191)
                    /\ Continuation(b, i + 2, 128, 191)
                 THEN from_utf8_at(b, i + 3,
                          Append(out, (b0 - 224) * 4096
                                      + (b[i + 1] - 128) * 64
                                      + (b[i + 2] - 128)))
                 ELSE bad
            ELSE IF b0 \in 240 .. 244
            THEN IF /\ Continuation(b, i + 1,
                                    IF b0 = 240 THEN 144 ELSE 128,
                                    IF b0 = 244 THEN 143 ELSE 191)
                    /\ Continuation(b, i + 2, 128, 191)
                    /\ Continuation(b, i + 3, 128, 191)
                 THEN from_utf8_at(b, i + 4,
                          Append(out, (b0 - 240) * 262144
                                      + (b[i + 1] - 128) * 4096
                                      + (b[i + 2] - 128) * 64
                                      + (b[i + 3] - 128)))
                 ELSE bad
            ELSE bad

from_utf8(b) == from_utf8_at(b, 1, <<>>)

(* ---- keys: a small cyclic group stands for secp256k1 ----               *)
(* The points are the powers of GroupGenerator modulo GroupModulus, a      *)
(* secret key is an exponent, and the x coordinate of a point is the       *)
(* residue itself.                                                         *)
GroupModulus == 23
GroupGenerator == 5

RECURSIVE ModPow(_, _, _)
ModPow(base, e, m) == IF e = 0 THEN 1 ELSE (base * ModPow(base, e - 1, m)) % m

Point(x) == [x |-> x, odd |-> x % 2 = 1]
(* the prefix of the keys                                                  *)
STM == <<83, 84, 77>>
NullKey == [key |-> <<>>, prefix |-> STM]

(* PrivateKey::public_key                                                  *)
public_key(sk) ==
    [key |-> <<Point(ModPow(GroupGenerator, sk, GroupModulus))>>,
     prefix |-> STM]

(* PublicKey::compressed_bytes: 02 or 03, then the x coordinate            *)
compressed_bytes(pk) ==
    IF pk.key = <<>> THEN Zeros(COMPRESSED_LEN)
    ELSE <<IF pk.key[1].odd THEN 3 ELSE 2>>
             \o Zeros(COMPRESSED_LEN - 2) \o <<pk.key[1].x>>

(* PublicKey::from_bytes(bytes, "STM")                                     *)
from_bytes(raw) ==
    IF raw = Zeros(COMPRESSED_LEN) THEN [ok |-> TRUE, pk |-> NullKey]
    ELSE IF /\ raw[1] \in {2, 3}
            /\ \A i \in 2 .. (COMPRESSED_LEN - 1) : raw[i] = 0
            /\ raw[COMPRESSED_LEN] \in 1 .. (GroupModulus - 1)
    THEN [ok |-> TRUE,
          pk |-> [key |-> <<[x |-> raw[COMPRESSED_LEN], odd |-> raw[1] = 3]>>,
                  prefix |-> STM]]
    ELSE [ok |-> FALSE, pk |-> NullKey]

(* a hash: a running value over the bytes, spread over n output bytes      *)
RECURSIVE FoldBlock(_, _, _, _, _)
FoldBlock(raw, i, last, mult, acc) ==
    IF i > last \/ acc < 0 THEN acc
    ELSE FoldBlock(raw, i + 1, last, mult, (acc * mult + raw[i] + i) % 65521)

RECURSIVE Fold(_, _, _, _)
Fold(raw, i, mult, acc) ==
    IF i > Len(raw) \/ acc < 0 THEN acc
    ELSE Fold(raw, i + 12, mult,
              FoldBlock(raw, i, Least(i + 11, Len(raw)), mult, acc))
Spread(h, n) ==
    [i \in 1 .. n |-> (h * i + (h \div 251) + 7 * i * i) % 256]
sha512(raw) == Spread(Fold(raw, 1, 31, 7), 64)
sha256(raw) == Spread(Fold(raw, 1, 37, 11), 32)
ripemd160(raw) == Spread(Fold(raw, 1, 41, 13), 20)

(* PublicKey::to_string_with_prefix: the prefix and the base58 text of the *)
(* key bytes and their four checksum bytes                                 *)
to_string_with_prefix(pk, prefix) ==
    [prefix |-> prefix,
     base58 |-> bs58_encode(compressed_bytes(pk)
                               \o SubSeq(ripemd160(compressed_bytes(pk)), 1, 4))]

(* PrivateKey::get_shared_secret                                           *)
get_shared_secret(sk, pk) ==
    IF pk.key = <<>> THEN Zeros(64)
    ELSE sha512(Zeros(31) \o <<ModPow(pk.key[1].x, sk, GroupModulus)>>)

(* a u64 is kept as its four 16-bit limbs, the lowest first                *)
U64OfNat(n) == <<n % 65536, n \div 65536, 0, 0>>
write_u64(u) ==
    [i \in 1 .. 8 |-> IF i % 2 = 1 THEN u[(i + 1) \div 2] % 256
                      ELSE u[i \div 2] \div 256]
u64_from_le_bytes(raw) ==
    [i \in 1 .. 4 |-> raw[2 * i - 1] + 256 * raw[2 * i]]
write_u32(u) == <<u.lo % 256, u.lo \div 256, u.hi % 256, u.hi \div 256>>
u32_from_le_bytes(raw) == U32(raw[3] + 256 * raw[4], raw[1] + 256 * raw[2])

(* write_varint32 of a length                                              *)
RECURSIVE write_varint32(_)
write_varint32(n) ==
    IF n >= 128 THEN <<(n % 128) + 128>> \o write_varint32(n \div 128)
    ELSE <<n>>

(* derive_aes_params: key, iv and check word                               *)
derive_aes_params(sk, pk, nonce) ==
    LET encryption_key == sha512(write_u64(nonce) \o get_shared_secret(sk, pk))
    IN [key |-> SubSeq(encryption_key, 1, 32),
        iv |-> SubSeq(encryption_key, 33, 48),
        check |-> u32_from_le_bytes(SubSeq(sha256(encryption_key), 1, 4))]

(* ---- AES-256-CBC with PKCS7 padding ----                                *)
(* The block cipher is a keyed permutation of the 16-byte blocks in which  *)
(* every output byte depends on every input byte; the chaining adds the    *)
(* previous cipher block where CBC xors it.                                *)
RECURSIVE SumOf(_, _)
SumOf(block, i) == IF i > Len(block) THEN 0 ELSE block[i] + SumOf(block, i + 1)

EncryptBlock(k, p) ==
    LET t == SumOf(p, 1)
    IN [i \in 1 .. BLOCK_SIZE |-> (p[i] + k[i] + k[BLOCK_SIZE + i] + t) % 256]

(* 241 is the inverse of 17 modulo 256                                     *)
DecryptBlock(k, c) ==
    LET t == (((SumOf(c, 1) - SumOf(k, 1)) % 256) * 241) % 256
    IN [i \in 1 .. BLOCK_SIZE |->
           (c[i] - k[i] - k[BLOCK_SIZE + i] - t) % 256]

AddBlocks(a, b) == [i \in 1 .. BLOCK_SIZE |-> (a[i] + b[i]) % 256]
SubBlocks(a, b) == [i \in 1 .. BLOCK_SIZE |-> (a[i] - b[i]) % 256]
BlockAt(raw, j) == SubSeq(raw, BLOCK_SIZE * (j - 1) + 1, BLOCK_SIZE * j)

RECURSIVE CbcEncrypt(_, _, _, _)
CbcEncrypt(k, prev, padded, j) ==
    IF BLOCK_SIZE * j > Len(padded) THEN <<>>
    ELSE LET c == EncryptBlock(k, AddBlocks(BlockAt(padded, j), prev))
         IN c \o CbcEncrypt(k, c, padded, j + 1)

RECURSIVE CbcDecrypt(_, _, _, _)
CbcDecrypt(k, prev, raw, j) ==
    IF BLOCK_SIZE * j > Len(raw) THEN <<>>
    ELSE SubBlocks(DecryptBlock(k, BlockAt(raw, j)), prev)
             \o CbcDecrypt(k, BlockAt(raw, j), raw, j + 1)

(* encrypt_padded_mut::<Pkcs7>                                             *)
encrypt_padded(k, iv, msg) ==
    LET pad_len == BLOCK_SIZE - (Len(msg) % BLOCK_SIZE)
    IN CbcEncrypt(k, iv, msg \o [i \in 1 .. pad_len |-> pad_len], 1)

(* decrypt_padded_mut::<Pkcs7>: an error unless the input is whole blocks  *)
(* that end in n bytes n, 1 <= n <= 16                                     *)
decrypt_padded(k, iv, raw) ==
    IF Len(raw) = 0 \/ Len(raw) % BLOCK_SIZE # 0
    THEN [ok |-> FALSE, bytes |-> <<>>]
    ELSE LET plain == CbcDecrypt(k, iv, raw, 1)
             n == plain[Len(plain)]
         IN IF /\ n \in 1 .. BLOCK_SIZE
               /\ \A i \in (Len(plain) - n + 1) .. Len(plain) : plain[i] = n
            THEN [ok |-> TRUE, bytes |-> SubSeq(plain, 1, Len(plain) - n)]
            ELSE [ok |-> FALSE, bytes |-> <<>>]

(* serialize_encrypted_memo                                                *)
serialize_encrypted_memo(p) ==
    compressed_bytes(p.from) \o compressed_bytes(p.to) \o write_u64(p.nonce)
        \o write_u32(p.check) \o write_varint32(Len(p.encrypted))
        \o p.encrypted

(* read_varint32 of memo.rs and of serialization/types.rs: the value, the  *)
(* bytes after it, or an error                                             *)
RECURSIVE read_varint32(_, _, _, _)
read_varint32(raw, idx, acc, sh) ==
    IF idx >= Len(raw) THEN [ok |-> FALSE, n |-> acc, rest |-> <<>>]
    ELSE LET byte == raw[idx + 1]
             v == OrU32(acc, ShlU32(byte % 128, sh))
         IN IF byte \div 128 = 0
            THEN [ok |-> TRUE, n |-> v, rest |-> SubSeq(raw, idx + 2, Len(raw))]
            ELSE IF ShiftTooLarge(sh + 7)
            THEN [ok |-> FALSE, n |-> v, rest |-> <<>>]
            ELSE read_varint32(raw, idx + 1, v, sh + 7)

(* cursor.len() < len, len a u32 taken as usize                            *)
ShorterThan(raw, n) == n.hi > 0 \/ Len(raw) < n.lo

(* read_variable_binary                                                    *)
read_variable_binary(raw) ==
    LET len == read_varint32(raw, 0, U32(0, 0), 0)
    IN IF ~len.ok \/ ShorterThan(len.rest, len.n)
       THEN [ok |-> FALSE, data |-> <<>>, rest |-> <<>>]
       ELSE [ok |-> TRUE,
             data |-> SubSeq(len.rest, 1, len.n.lo),
             rest |-> SubSeq(len.rest, len.n.lo + 1, Len(len.rest))]

(* read_string: the text and whether the cursor is empty after it          *)
read_string(raw) ==
    LET bin == read_variable_binary(raw)
        str == from_utf8(bin.data)
    IN IF bin.ok /\ str.ok
       THEN [ok |-> TRUE, text |-> str.text, rest |-> bin.rest]
       ELSE [ok |-> FALSE, text |-> <<>>, rest |-> <<>>]

(* write_string                                                            *)
write_string(s) == write_varint32(Len(as_bytes(s))) \o as_bytes(s)

(* deserialize_encrypted_memo: the payload or the error of the first       *)
(* field that cannot be read                                               *)
deserialize_encrypted_memo(raw) ==
    LET k == COMPRESSED_LEN
        from == from_bytes(SubSeq(raw, 1, k))
        to == from_bytes(SubSeq(raw, k + 1, 2 * k))
        bin == read_variable_binary(SubSeq(raw, 2 * k + 13, Len(raw)))
        failed(e) == [result |-> e, payload |-> <<>>]
    IN IF Len(raw) < k THEN failed(Serialization)
       ELSE IF ~from.ok THEN failed(InvalidKey)
       ELSE IF Len(raw) < 2 * k THEN failed(Serialization)
       ELSE IF ~to.ok THEN failed(InvalidKey)
       ELSE IF Len(raw) < 2 * k + 8 THEN failed(Serialization)
       ELSE IF Len(raw) < 2 * k + 12 THEN failed(Serialization)
       ELSE IF ~bin.ok THEN failed(Serialization)
       ELSE [result |-> Ok(<<>>),
             payload |->
               <<[from |-> from.pk, to |-> to.pk,
                  nonce |-> u64_from_le_bytes(SubSeq(raw, 2 * k + 1, 2 * k + 8)),
                  check |-> u32_from_le_bytes(SubSeq(raw, 2 * k + 9, 2 * k + 12)),
                  encrypted |-> bin.data]>>]

(* encode_with_nonce                                                       *)
encode_with_nonce(message, sender, receiver_public, nonce) ==
    IF message = <<>> \/ message[1] # NumberSign THEN Ok(message)
    ELSE LET plain_bytes == write_string(Tail(message))
             aes == derive_aes_params(sender, receiver_public, nonce)
             p == [from |-> public_key(sender),
                   to |-> receiver_public,
                   nonce |-> nonce,
                   check |-> aes.check,
                   encrypted |-> encrypt_padded(aes.key, aes.iv, plain_bytes)]
         IN Ok(<<NumberSign>> \o bs58_encode(serialize_encrypted_memo(p)))

(* the public key decode takes for the other side, lines 82-92             *)
other_public_AlwaysFrom(p, receiver) == p.from
other_public(p, receiver) ==
    LET my_public == to_string_with_prefix(public_key(receiver), STM)
        from == to_string_with_prefix(p.from, p.from.prefix)
        to == to_string_with_prefix(p.to, p.to.prefix)
    IN IF my_public = from THEN p.to
       ELSE IF my_public = to THEN p.from
       ELSE p.from

(* check != payload.check, line 95                                         *)
CheckDiffers_Never(a, b) == FALSE
CheckDiffers(a, b) == a # b

(* decode from line 94 on, the payload read                                *)
decode_payload(p, receiver) ==
    LET aes == derive_aes_params(receiver, other_public(p, receiver), p.nonce)
        decrypted == decrypt_padded(aes.key, aes.iv, p.encrypted)
        str == read_string(decrypted.bytes)
        whole == from_utf8(decrypted.bytes)
    IN IF CheckDiffers(aes.check, p.check) THEN Signing(<<"Invalid", "key">>)
       ELSE IF ~decrypted.ok
       THEN Signing(<<"memo", "decrypt", "failed">>)
       ELSE IF str.ok /\ str.rest = <<>> THEN Ok(<<NumberSign>> \o str.text)
       ELSE IF ~whole.ok
       THEN Signing(<<"memo", "plaintext", "is", "not", "valid", "UTF-8">>)
       ELSE Ok(<<NumberSign>> \o whole.text)

(* decode: the result, and the payload it read, if it read one             *)
decode(text, receiver) ==
    IF text = <<>> \/ text[1] # NumberSign
    THEN [result |-> Ok(text), payload |-> <<>>]
    ELSE LET raw == bs58_decode(Tail(text))
             read == deserialize_encrypted_memo(raw.bytes)
         IN IF ~raw.ok
            THEN [result |-> Signing(<<"invalid", "base58", "memo">>),
                  payload |-> <<>>]
            ELSE IF read.result.kind # "Ok" THEN read
            ELSE [result |-> decode_payload(read.payload[1], receiver),
                  payload |-> read.payload]

(* ---- inputs ---- *)
MemoMessages ==
    { <<35>>,                                    \* "#"
      <<35, 109, 101, 109, 111, 29233>>,         \* "#memo" and U+7231
      <<35>> \o [i \in 1 .. 14 |-> 97],          \* one padding byte
      <<35>> \o [i \in 1 .. 15 |-> 97],          \* a whole padding block
      <<112, 108>> }                             \* "pl", not encrypted
MemoNonces == { U64OfNat(0), U64OfNat(1234567890) }

(* the final character replaced: by the one some places further in the     *)
(* alphabet, or by a character outside the alphabet                        *)
FinalOffsets == {1, 16, 42}
OutsideAlphabet == 48
WithFinal(text, c) == [text EXCEPT ![Len(text)] = c]
FinalChanged(text) ==
    IF text = <<>> THEN {}
    ELSE { WithFinal(text, OutsideAlphabet) } \cup
         { WithFinal(text, Base58Char((Base58Digit(text[Len(text)]) + off) % 58)) :
               off \in IF Base58Digit(text[Len(text)]) < 0 THEN {}
                       ELSE FinalOffsets }

MInit ==
    /\ memo_message \in MemoMessages
    /\ sender_private \in Secrets
    /\ receiver_private \in Secrets
    /\ memo_nonce \in MemoNonces
    /\ memo_pc = "start"
    /\ encoded = NoResult
    /\ decode_input = <<>>
    /\ decode_key = 0
    /\ payload = <<>>
    /\ decoded = NoResult

(* encode_with_nonce(message, sender, receiver's public key, nonce)        *)
EncodeMemo ==
    /\ memo_pc = "start"
    /\ encoded' = encode_with_nonce(memo_message, sender_private,
                                    public_key(receiver_private), memo_nonce)
    /\ memo_pc' = "encoded"
    /\ UNCHANGED <<memo_message, sender_private, receiver_private, memo_nonce,
                   decode_input, decode_key, payload, decoded>>
    /\ Frame("memo")

(* decode(text, key) of the encoded memo, as it is or with its final       *)
(* character replaced, by the sender, the receiver or somebody else        *)
DecodeMemo ==
    /\ memo_pc = "encoded"
    /\ encoded.kind = "Ok"
    /\ \E text \in {encoded.value} \cup FinalChanged(encoded.value),
          sk \in Secrets :
          LET d == decode(text, sk)
          IN /\ decode_input' = text
             /\ decode_key' = sk
             /\ payload' = d.payload
             /\ decoded' = d.result
    /\ memo_pc' = "decoded"
    /\ UNCHANGED <<memo_message, sender_private, receiver_private, memo_nonce,
                   encoded>>
    /\ Frame("memo")

MNext == EncodeMemo \/ DecodeMemo

(* ========================== unique_nonce =============================== *)

NonceThreads == {"n1", "n2"}

(* rand::random::<u16>() as u32                                            *)
Seeds == {0, 65535}

NInit ==
    /\ entropy \in {<<seed>> : seed \in Seeds}
    /\ clock_ms = 0
    /\ nonce_pc = [t \in NonceThreads |-> "idle"]
    /\ now_ms = [t \in NonceThreads |-> 0]
    /\ calls = 0
    /\ runs = 0
    /\ first_nonce = <<>>
    /\ last_nonce = <<>>

(* the wall clock passes into the next millisecond                         *)
ClockTick ==
    /\ clock_ms < MaxMs
    /\ clock_ms' = clock_ms + 1
    /\ UNCHANGED <<entropy, nonce_pc, now_ms, calls, runs, first_nonce,
                   last_nonce>>
    /\ Frame("nonce")

(* lines 8-16: the entropy is there (get_or_init) and the clock is read    *)
ReadClock(t) ==
    /\ nonce_pc[t] = "idle"
    /\ calls + Cardinality({u \in NonceThreads : nonce_pc[u] # "idle"})
           < MaxCalls
    /\ now_ms' = [now_ms EXCEPT ![t] = clock_ms]
    /\ nonce_pc' = [nonce_pc EXCEPT ![t] = "clock_read"]
    /\ UNCHANGED <<entropy, clock_ms, calls, runs, first_nonce, last_nonce>>
    /\ Frame("nonce")

(* (entropy.fetch_add(1) + 1) % 0xFFFF                                     *)
low(previous) == (previous + 1) % NONCE_MODULUS

(* (now_ms << 16) | low, low below 2^16                                    *)
nonce_of(ms, l) == ms * 65536 + l

(* lines 18-19: the atomic fetch_add and the return                        *)
FetchAdd(t) ==
    /\ nonce_pc[t] = "clock_read"
    /\ entropy' = <<entropy[1] + 1>>
    /\ nonce_pc' = [nonce_pc EXCEPT ![t] = "idle"]
    /\ calls' = calls + 1
    /\ last_nonce' = <<nonce_of(now_ms[t], low(entropy[1]))>>
    /\ first_nonce' = IF first_nonce = <<>>
                      THEN <<nonce_of(now_ms[t], low(entropy[1]))>>
                      ELSE first_nonce
    /\ UNCHANGED <<clock_ms, now_ms, runs>>
    /\ Frame("nonce")

(* a thread calls unique_nonce RunLength times in a row, no other thread   *)
(* calling meanwhile: the entropy has moved on by RunLength and the last   *)
(* of the calls, which read the clock now, returns                         *)
RunLength == NONCE_MODULUS - 1
CallRun(t) ==
    /\ nonce_pc[t] = "idle"
    /\ runs < MaxRuns
    /\ first_nonce # <<>>
    /\ entropy' = <<entropy[1] + RunLength>>
    /\ runs' = runs + 1
    /\ last_nonce' = <<nonce_of(clock_ms, low(entropy[1] + RunLength - 1))>>
    /\ UNCHANGED <<clock_ms, nonce_pc, now_ms, calls, first_nonce>>
    /\ Frame("nonce")

NNext ==
    \/ ClockTick
    \/ \E t \in NonceThreads : ReadClock(t)
    \/ \E t \in NonceThreads : FetchAdd(t)
    \/ \E t \in NonceThreads : CallRun(t)

(* ============ the fallible functions of the library =================== *)

(* str::is_char_boundary(n): n bytes are a whole number of characters      *)
CharsIn(s, n) ==
    { k \in 0 .. Len(s) : Len(as_bytes(SubSeq(s, 1, k))) = n }
is_char_boundary(s, n) == CharsIn(s, n) # {}

(* &value[n..] and &value[..n] where n is a character boundary             *)
StrFrom(s, n) ==
    LET k == CHOOSE k \in CharsIn(s, n) : TRUE IN SubSeq(s, k + 1, Len(s))
StrTo(s, n) ==
    LET k == CHOOSE k \in CharsIn(s, n) : TRUE IN SubSeq(s, 1, k)

(* PublicKey::from_string. Slicing a str off a character boundary panics.  *)
public_key_from_string(text) ==
    IF Len(as_bytes(text)) < 3 THEN InvalidKey
    ELSE IF ~is_char_boundary(text, 3) THEN Panic
    ELSE LET unbased == bs58_decode(StrFrom(text, 3))
             key_bytes == SubSeq(unbased.bytes, 1, COMPRESSED_LEN)
             read == from_bytes(key_bytes)
         IN IF ~unbased.ok THEN InvalidKey
            ELSE IF Len(unbased.bytes) # COMPRESSED_LEN + 4 THEN InvalidKey
            ELSE IF SubSeq(unbased.bytes, COMPRESSED_LEN + 1, COMPRESSED_LEN + 4)
                      # SubSeq(ripemd160(key_bytes), 1, 4)
            THEN InvalidKey
            ELSE IF ~read.ok THEN InvalidKey
            ELSE Ok([read.pk EXCEPT !.prefix = StrTo(text, 3)])

double_sha256(raw) == sha256(sha256(raw))

(* PrivateKey::to_wif                                                      *)
SecretBytes(sk) == Zeros(31) \o <<sk>>
WifOf(raw) == bs58_encode(raw \o SubSeq(double_sha256(raw), 1, 4))
to_wif(sk) == WifOf(<<NETWORK_ID>> \o SecretBytes(sk))

(* PrivateKey::from_bytes: SecretKey::from_slice takes the exponents from  *)
(* 1 to below the order of the group                                       *)
private_key_from_bytes(raw) ==
    IF /\ \A i \in 1 .. (Len(raw) - 1) : raw[i] = 0
       /\ raw[Len(raw)] \in 1 .. (GroupModulus - 2)
    THEN Ok(raw[Len(raw)])
    ELSE InvalidKey

(* PrivateKey::from_wif                                                    *)
from_wif(wif) ==
    LET unbased == bs58_decode(wif) IN
    IF ~unbased.ok THEN InvalidKey
    ELSE IF Len(unbased.bytes) # 37 THEN InvalidKey
    ELSE IF unbased.bytes[1] # NETWORK_ID THEN InvalidKey
    ELSE IF SubSeq(unbased.bytes, 34, 37)
              # SubSeq(double_sha256(SubSeq(unbased.bytes, 1, 33)), 1, 4)
    THEN InvalidKey
    ELSE private_key_from_bytes(SubSeq(unbased.bytes, 2, 33))

(* Client::new: the assert on the node list and the expect on the          *)
(* transport, which FailoverTransport::new fails to build when the HTTP    *)
(* client of a node cannot be built                                        *)
client_new(nodes, http_client_builds) ==
    IF nodes = <<>> THEN Panic
    ELSE IF ~http_client_builds THEN Panic
    ELSE Ok(nodes)

(* ---- inputs ---- *)
KeyText(raw) == STM \o bs58_encode(raw \o SubSeq(ripemd160(raw), 1, 4))
PublicKeyTexts ==
    { KeyText(compressed_bytes(public_key(sk))) : sk \in Secrets } \cup
    { WithFinal(KeyText(compressed_bytes(public_key(1))), 49),
      KeyText(Zeros(COMPRESSED_LEN)),
      KeyText(<<2>> \o Zeros(COMPRESSED_LEN - 1)),
      KeyText(<<2, 5>>),
      STM \o <<48>>,
      STM,
      <<>>,
      <<83, 84>>,                 \* "ST"
      <<233, 83, 84>>,            \* U+00E9, "ST": 4 bytes, 3 is a boundary
      <<83, 84, 8364>>,           \* "ST", U+20AC: 5 bytes, 3 is no boundary
      <<83, 233, 233, 49>> }      \* "S", U+00E9 twice, "1": 3 is a boundary

WifTexts ==
    { to_wif(sk) : sk \in Secrets } \cup
    { WithFinal(to_wif(1), 49),
      WifOf(<<NETWORK_ID - 1>> \o SecretBytes(1)),
      WifOf(<<NETWORK_ID>> \o SecretBytes(0)),
      WifOf(<<NETWORK_ID>> \o SecretBytes(GroupModulus - 1)),
      WifOf(<<NETWORK_ID, 1>>),
      <<48>>,
      <<8364>>,
      <<>> }

AssetTexts ==
    { TextOf(parts) : parts \in TextParts } \cup
    { <<>>, <<" ">>, <<"1">>, <<"1", " ", "H", "B", "D", " ", "x">>,
      <<".", " ", "H", "I", "V", "E">> }

FormatAssets ==
    KnownAssets \cup
    { Asset(amount, precision, Custom(<<"X">>)) :
          amount \in { I64(FALSE, <<0>>), I64(TRUE, <<1, 2, 3>>),
                       I64(TRUE, I64_MIN_ABS) },
          precision \in {0, 1, 18, 19, 63, 64, 255} }

MemoPayloads ==
    LET aes == derive_aes_params(1, public_key(2), U64OfNat(7))
        whole == [from |-> public_key(1), to |-> public_key(2),
                  nonce |-> U64OfNat(7), check |-> aes.check,
                  encrypted |-> encrypt_padded(aes.key, aes.iv, <<1, 97>>)]
        bytes == serialize_encrypted_memo(whole)
    IN { bytes,
         serialize_encrypted_memo([whole EXCEPT !.encrypted = <<>>]),
         serialize_encrypted_memo([whole EXCEPT !.encrypted = <<1, 2, 3>>]),
         serialize_encrypted_memo([whole EXCEPT !.encrypted = Zeros(BLOCK_SIZE)]),
         serialize_encrypted_memo([whole EXCEPT !.from = NullKey]),
         serialize_encrypted_memo([whole EXCEPT !.to = NullKey]),
         SubSeq(bytes, 1, COMPRESSED_LEN),
         SubSeq(bytes, 1, 2 * COMPRESSED_LEN + 3),
         SubSeq(bytes, 1, 2 * COMPRESSED_LEN + 10),
         SubSeq(bytes, 1, 2 * COMPRESSED_LEN + 12),
         SubSeq(bytes, 1, 2 * COMPRESSED_LEN + 20),
         bytes \o <<9>>,
         <<2>> \o Zeros(COMPRESSED_LEN),
         SubSeq(bytes, 1, 2 * COMPRESSED_LEN + 12)
             \o <<255, 255, 255, 255, 255>>,
         SubSeq(bytes, 1, 2 * COMPRESSED_LEN + 12)
             \o <<255, 255, 255, 255, 15, 1>> }

DecodeTexts ==
    { <<NumberSign>> \o bs58_encode(raw) : raw \in MemoPayloads } \cup
    { <<>>, <<112, 108>>, <<NumberSign>>, <<NumberSign, 49>>,
      <<NumberSign, 48>>, <<NumberSign, 8364>>, <<8364, 35>> }

ClientNodeLists == { <<>>, <<"https://api.hive.blog">>,
                     <<"https://api.hive.blog", "not a url">> }

LInit == call = <<"", <<>>, NoResult>>

CallPublicKeyFromString ==
    /\ function = ""
    /\ \E text \in PublicKeyTexts :
           call' = <<"PublicKey::from_string",
                     text,
                     public_key_from_string(text)>>
    /\ Frame("library")

CallFromWif ==
    /\ function = ""
    /\ \E wif \in WifTexts :
           call' = <<"PrivateKey::from_wif",
                     wif,
                     from_wif(wif)>>
    /\ Frame("library")

CallAssetFromString ==
    /\ function = ""
    /\ \E text \in AssetTexts :
           call' = <<"Asset::from_string",
                     text,
                     from_string(text)>>
    /\ Frame("library")

CallAssetToString ==
    /\ function = ""
    /\ \E a \in FormatAssets, overflow_checks \in BOOLEAN :
           call' = <<"Asset::to_string",
                     [asset |-> a, overflow_checks |-> overflow_checks],
                     fmt(a, overflow_checks)>>
    /\ Frame("library")

CallMemoDecode ==
    /\ function = ""
    /\ \E text \in DecodeTexts, sk \in Secrets :
           call' = <<"memo::decode",
                     [encoded |-> text, receiver_private |-> sk],
                     decode(text, sk).result>>
    /\ Frame("library")

CallSerializeTransaction ==
    /\ function = ""
    /\ \E tx \in UnsignedTransactions :
           call' = <<"serialize_transaction",
                     tx,
                     serialize_transaction(tx)>>
    /\ Frame("library")

CallCalculateCost ==
    /\ function = ""
    /\ \E operations \in RcOperationLists, params \in RcParamsValues,
          pool \in RcPools, regen \in RcRegens, shares \in RcShares,
          overflow_checks \in BOOLEAN :
           call' = <<"calculate_cost_from_state",
                     [operations |-> operations, params |-> params,
                      pool |-> pool, regen |-> regen, shares |-> shares,
                      overflow_checks |-> overflow_checks],
                     calculate_cost_from_state(operations, params, pool,
                                               regen, shares, overflow_checks,
                                               ClockUnread)>>
    /\ Frame("library")

CallClientNew ==
    /\ function = ""
    /\ \E nodes \in ClientNodeLists, builds \in BOOLEAN :
           call' = <<"Client::new",
                     [nodes |-> nodes, http_client_builds |-> builds],
                     client_new(nodes, builds)>>
    /\ Frame("library")

LNext ==
    \/ CallPublicKeyFromString
    \/ CallFromWif
    \/ CallAssetFromString
    \/ CallAssetToString
    \/ CallMemoDecode
    \/ CallSerializeTransaction
    \/ CallCalculateCost
    \/ CallClientNew

(* ============ read_varint32 on bytes of any origin ===================== *)

MaxInput == 6

(* bytes on both sides of the continuation bit and of the fifth group's    *)
(* four low bits                                                           *)
InputBytes == {0, 15, 16, 128, 255}

RECURSIVE InputsOfLen(_)
InputsOfLen(n) ==
    IF n = 0 THEN { <<>> }
    ELSE { Append(raw, b) : raw \in InputsOfLen(n - 1), b \in InputBytes }

ReadInputs == UNION { InputsOfLen(n) : n \in 0 .. MaxInput }

NotRead == [kind |-> "None", n |-> U32(0, 0), rest |-> <<>>]

DInit ==
    /\ read_input \in ReadInputs
    /\ read_pc = "call"
    /\ read_output = NotRead

(* read_varint32(&mut cursor)                                              *)
ReadVarint ==
    /\ read_pc = "call"
    /\ LET r == read_varint32(read_input, 0, U32(0, 0), 0)
       IN read_output' = IF r.ok
                         THEN [kind |-> "Ok", n |-> r.n, rest |-> r.rest]
                         ELSE [kind |-> "Serialization", n |-> U32(0, 0),
                               rest |-> read_input]
    /\ read_pc' = "done"
    /\ UNCHANGED read_input
    /\ Frame("reader")

DNext == ReadVarint

(* ====================== fallback_share_map ============================= *)

(* A 64-bit number is kept as its 16-bit limbs, the lowest first, so that  *)
(* every bit of an i64 and of a u64 is there.                              *)
LimbRange == 65536
WideOf(n) == <<n % LimbRange, n \div LimbRange>>

(* the limbs without the zero limbs at the top                             *)
RECURSIVE Trim(_)
Trim(a) ==
    IF a = <<>> THEN <<>>
    ELSE IF a[Len(a)] = 0 THEN Trim(SubSeq(a, 1, Len(a) - 1))
    ELSE a

(* a * k for a factor below 2^15                                           *)
RECURSIVE WideMul(_, _, _)
WideMul(a, k, carry) ==
    IF a = <<>>
    THEN IF carry = 0 THEN <<>> ELSE <<carry % LimbRange>>
                                     \o WideMul(<<>>, k, carry \div LimbRange)
    ELSE LET p == Head(a) * k + carry
         IN <<p % LimbRange>> \o WideMul(Tail(a), k, p \div LimbRange)

(* a + b                                                                   *)
RECURSIVE WideAdd(_, _, _)
WideAdd(a, b, carry) ==
    IF a = <<>> /\ b = <<>>
    THEN IF carry = 0 THEN <<>> ELSE <<carry>>
    ELSE LET x == IF a = <<>> THEN 0 ELSE Head(a)
             y == IF b = <<>> THEN 0 ELSE Head(b)
             t == x + y + carry
         IN <<t % LimbRange>>
              \o WideAdd(IF a = <<>> THEN <<>> ELSE Tail(a),
                         IF b = <<>> THEN <<>> ELSE Tail(b), t \div LimbRange)

(* a <= b                                                                  *)
RECURSIVE TrimmedLessEq(_, _)
TrimmedLessEq(a, b) ==
    IF Len(a) # Len(b) THEN Len(a) < Len(b)
    ELSE IF a = <<>> THEN TRUE
    ELSE IF a[Len(a)] # b[Len(b)] THEN a[Len(a)] < b[Len(b)]
    ELSE TrimmedLessEq(SubSeq(a, 1, Len(a) - 1), SubSeq(b, 1, Len(b) - 1))
WideLessEq(a, b) == TrimmedLessEq(Trim(a), Trim(b))

(* i64::MAX                                                                *)
WideI64Max == <<65535, 65535, 65535, 32767>>

(* the low 64 bits of a number as an i64: its sign and its magnitude       *)
WrapI64(a) ==
    LET w == [i \in 1 .. 4 |-> IF i <= Len(a) THEN a[i] ELSE 0]
    IN IF w[4] < 32768 THEN [neg |-> FALSE, mag |-> w]
       ELSE [neg |-> TRUE,
             mag |-> SubSeq(WideAdd([i \in 1 .. 4 |-> 65535 - w[i]],
                                    <<1>>, 0), 1, 4)]

(* the largest q of lo .. hi with q * d <= n, for d > 0 and lo * d <= n    *)
RECURSIVE QuotientIn(_, _, _, _)
QuotientIn(n, d, lo, hi) ==
    IF lo = hi THEN lo
    ELSE LET mid == (lo + hi + 1) \div 2
         IN IF WideLessEq(WideMul(d, mid, 0), n)
            THEN QuotientIn(n, d, mid, hi)
            ELSE QuotientIn(n, d, lo, mid - 1)

(* a quotient of fallback_share_map is at most 10,000 in magnitude: the    *)
(* budget is at most the sum of the budgets                                *)
QuotientLimit == 16383
WideDiv(n, d) == QuotientIn(n, d, 0, QuotientLimit)

(* i64::try_from(budget_per_time_unit).unwrap_or(0).max(0) of a resource   *)
(* that resource_params has, 0 limbs for the others                        *)
BudgetOf(params, name) ==
    IF name \notin DOMAIN params.resource_params THEN <<>>
    ELSE LET budget == params.resource_params[name].budget_per_time_unit
         IN IF WideLessEq(budget, WideI64Max) THEN Trim(budget) ELSE <<>>

(* budget_sum.saturating_add(budget.max(0)) over the names                 *)
RECURSIVE BudgetSum(_, _, _)
BudgetSum(names, params, acc) ==
    IF names = <<>> THEN acc
    ELSE LET added == Trim(WideAdd(acc, BudgetOf(params, Head(names)), 0))
         IN BudgetSum(Tail(names), params,
                      IF WideLessEq(added, WideI64Max) THEN added
                      ELSE WideI64Max)

(* (budget * RC_SHARE_BASIS_POINTS) / budget_sum: the product overflows    *)
(* an i64 beyond i64::MAX, which panics in a build with overflow checks    *)
(* and wraps in a build without                                            *)
ComputedShare(budget, budget_sum, overflow_checks) ==
    LET product == WideMul(budget, RC_SHARE_BASIS_POINTS, 0)
    IN IF WideLessEq(product, WideI64Max)
       THEN Ok(WideDiv(product, budget_sum))
       ELSE IF overflow_checks THEN Panic
       ELSE LET wrapped == WrapI64(product)
                quotient == WideDiv(wrapped.mag, budget_sum)
            IN Ok(IF wrapped.neg THEN 0 - quotient ELSE quotient)

(* BTreeMap::insert on a map kept as a function                            *)
Insert(map, key, share) ==
    [k \in DOMAIN map \cup {key} |-> IF k = key THEN share ELSE map[k]]

(* the loop of lines 598-623 from the idx-th name on                       *)
RECURSIVE ShareLoop(_, _, _, _, _, _, _)
ShareLoop(names, idx, assigned, map, params, budget_sum, overflow_checks) ==
    IF idx > Len(names) THEN Ok(map)
    ELSE LET name == names[idx]
             is_last == idx = Len(names)
             computed ==
                 IF budget_sum # <<>>
                 THEN ComputedShare(BudgetOf(params, name), budget_sum,
                                    overflow_checks)
                 ELSE Ok(RC_SHARE_BASIS_POINTS \div Len(names))
         IN IF is_last
            THEN LET share == RC_SHARE_BASIS_POINTS - assigned
                 IN Ok(Insert(map, name, IF share > 0 THEN share ELSE 0))
            ELSE IF computed.kind # "Ok" THEN computed
            ELSE ShareLoop(names, idx + 1, assigned + computed.value,
                           Insert(map, name,
                                  IF computed.value > 0 THEN computed.value
                                  ELSE 0),
                           params, budget_sum, overflow_checks)

(* the names that are not resource_new_accounts, in their order            *)
NonNewNames(params) ==
    SelectSeq(ordered_resource_names(params),
              LAMBDA name : name # RESOURCE_NEW_ACCOUNTS)

(* fallback_share_map                                                      *)
fallback_share_map(params, overflow_checks) ==
    LET non_new_names == NonNewNames(params)
        budget_sum == BudgetSum(non_new_names, params, <<>>)
        shares == ShareLoop(non_new_names, 1, 0, <<>>, params, budget_sum,
                            overflow_checks)
    IN IF shares.kind # "Ok" THEN shares
       ELSE Ok(Insert(shares.value, RESOURCE_NEW_ACCOUNTS,
                      RC_SHARE_BASIS_POINTS))

(* ---- inputs ---- *)
(* budgets: none, small, the budget of the test params, the largest whose  *)
(* product fits an i64, the next one, 2^59 and 2^63                        *)
BudgetValues ==
    { <<0, 0, 0, 0>>, <<1, 0, 0, 0>>, <<43403, 0, 0, 0>>,
      <<34917, 23907, 18140, 3>>, <<34918, 23907, 18140, 3>>,
      <<0, 0, 0, 2048>>, <<0, 0, 0, 32768>> }

ShareNames ==
    { <<>>,
      <<RESOURCE_STATE_BYTES, RESOURCE_HISTORY_BYTES>>,
      <<RESOURCE_NEW_ACCOUNTS>>,
      <<"resource_custom", RESOURCE_NEW_ACCOUNTS, RESOURCE_MARKET_BYTES,
        RESOURCE_HISTORY_BYTES>> }

ShareParams ==
    { [resource_names |-> names,
       resource_params |->
           [n \in present |->
               [budget_per_time_unit |->
                   CASE n = RESOURCE_HISTORY_BYTES -> h
                     [] n = RESOURCE_MARKET_BYTES -> m
                     [] n = RESOURCE_STATE_BYTES -> s
                     [] OTHER -> <<7, 0, 0, 0>>]]] :
        names \in ShareNames,
        present \in { KnownNames, KnownNames \ {RESOURCE_EXECUTION_TIME},
                      {RESOURCE_NEW_ACCOUNTS} },
        h \in BudgetValues, m \in BudgetValues, s \in BudgetValues }

HInit ==
    /\ share_params \in ShareParams
    /\ share_checks \in BOOLEAN
    /\ share_pc = "call"
    /\ share_map = NoResult

(* fallback_share_map(params)                                              *)
FallbackShares ==
    /\ share_pc = "call"
    /\ share_map' = fallback_share_map(share_params, share_checks)
    /\ share_pc' = "done"
    /\ UNCHANGED <<share_params, share_checks>>
    /\ Frame("shares")

HNext == FallbackShares

(* ============ two evaluations of calculate_cost_from_state ============= *)

(* The clock runs between the evaluations; operations, params, pool, regen *)
(* and shares are the same in both.                                        *)
MaxClock == 4
ProposalDates ==
    { DateText(FALSE, 0), DateText(TRUE, -SecondsPerHour), DateText(TRUE, 0),
      DateText(TRUE, SecondsPerHour), DateText(TRUE, 3 * SecondsPerHour),
      DateText(TRUE, 3 * SecondsPerHour + 1) }
EstimatorOperationLists ==
    { <<CreateProposalOp(s, e, n)>> : s \in ProposalDates, e \in ProposalDates,
                                      n \in {0, 12} }
      \cup { <<CreateProposalOp(s, s, 0), CreateProposalOp(s, s, 0)>> :
                 s \in ProposalDates }
EstimatorSizeInfos ==
    { [resource_state_bytes |-> ConstMap({}, 0),
       resource_execution_time |-> ConstMap({}, 0)],
      [resource_state_bytes |->
           ConstMap({"transaction_base_size", "create_proposal_base_size",
                     "create_proposal_subject_permlink_char_size"}, 10),
       resource_execution_time |->
           ConstMap({"transaction_time", "verify_authority_time",
                     "create_proposal_time"}, 5)] }
EstimatorParams ==
    { [resource_names |-> <<>>,
       resource_params |->
           ConstMap(KnownNames,
                    [resource_unit |-> 1, coeff_a |-> 100, coeff_b |-> 100,
                     shift |-> 3]),
       size_info |-> si] : si \in EstimatorSizeInfos }
EstimatorPool == ConstMap(KnownNames, 50)
EstimatorRegen == 10000
EstimatorShares == ConstMap(KnownNames, 10000)

EInit ==
    /\ est_operations \in EstimatorOperationLists
    /\ est_params \in EstimatorParams
    /\ est_now = 0
    /\ est_results = <<>>

(* time passes                                                             *)
Tick ==
    /\ est_now < MaxClock * SecondsPerHour
    /\ est_now' = est_now + SecondsPerHour
    /\ UNCHANGED <<est_operations, est_params, est_results>>
    /\ Frame("estimator")

(* one evaluation of calculate_cost_from_state                             *)
Evaluate ==
    /\ Len(est_results) < 2
    /\ est_results' =
           Append(est_results,
                  calculate_cost_from_state(est_operations, est_params,
                                            EstimatorPool, EstimatorRegen,
                                            EstimatorShares, FALSE, est_now))
    /\ UNCHANGED <<est_operations, est_params, est_now>>
    /\ Frame("estimator")

ENext == Tick \/ Evaluate

(* ============ hive_serialize of the transfer operations ================ *)

(* the ASCII code of a character of a symbol                               *)
AsciiOf(c) ==
    CASE c = "B" -> 66 [] c = "D" -> 68 [] c = "E" -> 69 [] c = "M" -> 77
      [] c = "S" -> 83 [] c = "T" -> 84 [] c = "V" -> 86 [] c = "X" -> 88

(* Asset::steem_symbols: the symbol written to the wire                    *)
steem_symbols(a) ==
    CASE a.symbol.tag = "Hive" -> <<"S", "T", "E", "E", "M">>
      [] a.symbol.tag = "Hbd" -> <<"S", "B", "D">>
      [] a.symbol.tag = "Vests" -> <<"V", "E", "S", "T", "S">>
      [] OTHER -> a.symbol.name

(* the integer of an amount (the amounts of the inputs fit 31 bits)        *)
RECURSIVE MagValue(_)
MagValue(mag) ==
    IF mag = <<>> THEN 0
    ELSE 10 * MagValue(SubSeq(mag, 1, Len(mag) - 1)) + mag[Len(mag)]
AmountValue(amount) ==
    IF amount.neg THEN 0 - MagValue(amount.mag) ELSE MagValue(amount.mag)

(* write_i64: val.to_le_bytes(), two's complement                          *)
write_i64(n) ==
    [i \in 1 .. 8 |-> IF i <= 3 THEN (n \div Pow2(8 * (i - 1))) % 256
                      ELSE IF i = 4 THEN ((n \div Pow2(24)) % 256)
                      ELSE IF n < 0 THEN 255 ELSE 0]

SYMBOL_BYTES == 7
(* write_asset                                                             *)
write_asset(a) ==
    LET symbol == steem_symbols(a) IN
    IF Len(symbol) > SYMBOL_BYTES THEN Serialization
    ELSE Ok(write_i64(AmountValue(a.amount)) \o <<a.precision>>
              \o [i \in 1 .. SYMBOL_BYTES |->
                      IF i <= Len(symbol) THEN AsciiOf(symbol[i]) ELSE 0])

(* An operation is a record of the fields of its struct; a field the       *)
(* struct does not have is left empty and is not read.                     *)
TransferOperation(from, to, amount, memo) ==
    [kind |-> "transfer", from |-> from, to |-> to, request_id |-> U32(0, 0),
     amount |-> amount, memo |-> memo]
TransferToVestingOperation(from, to, amount) ==
    [kind |-> "transfer_to_vesting", from |-> from, to |-> to,
     request_id |-> U32(0, 0), amount |-> amount, memo |-> <<>>]
TransferToSavingsOperation(from, to, amount, memo) ==
    [kind |-> "transfer_to_savings", from |-> from, to |-> to,
     request_id |-> U32(0, 0), amount |-> amount, memo |-> memo]
TransferFromSavingsOperation(from, request_id, to, amount, memo) ==
    [kind |-> "transfer_from_savings", from |-> from, to |-> to,
     request_id |-> request_id, amount |-> amount, memo |-> memo]

(* Operation::id                                                           *)
operation_id(op) ==
    CASE op.kind = "transfer" -> 2
      [] op.kind = "transfer_to_vesting" -> 3
      [] op.kind = "transfer_to_savings" -> 32
      [] op.kind = "transfer_from_savings" -> 33

(* bytes followed by what a fallible write appends                         *)
Then(bytes, written) ==
    IF written.kind # "Ok" THEN written ELSE Ok(bytes \o written.value)

serialize_transfer(op) ==
    LET amount == Then(write_string(op.from) \o write_string(op.to),
                       write_asset(op.amount))
    IN IF amount.kind # "Ok" THEN amount
       ELSE Ok(amount.value \o write_string(op.memo))

serialize_transfer_to_vesting(op) ==
    Then(write_string(op.from) \o write_string(op.to), write_asset(op.amount))

serialize_transfer_to_savings_MemoBeforeAmount(op) ==
    Then(write_string(op.from) \o write_string(op.to) \o write_string(op.memo),
         write_asset(op.amount))
serialize_transfer_to_savings(op) ==
    LET amount == Then(write_string(op.from) \o write_string(op.to),
                       write_asset(op.amount))
    IN IF amount.kind # "Ok" THEN amount
       ELSE Ok(amount.value \o write_string(op.memo))

serialize_transfer_from_savings(op) ==
    LET amount == Then(write_string(op.from) \o write_u32(op.request_id)
                         \o write_string(op.to),
                       write_asset(op.amount))
    IN IF amount.kind # "Ok" THEN amount
       ELSE Ok(amount.value \o write_string(op.memo))

(* Operation::hive_serialize                                               *)
hive_serialize(op) ==
    Then(write_varint32(operation_id(op)),
         CASE op.kind = "transfer" -> serialize_transfer(op)
           [] op.kind = "transfer_to_vesting" -> serialize_transfer_to_vesting(op)
           [] op.kind = "transfer_to_savings" -> serialize_transfer_to_savings(op)
           [] op.kind = "transfer_from_savings" ->
                  serialize_transfer_from_savings(op))

(* inputs: strings are sequences of code points                            *)
Foo == <<102, 111, 111>>
Bar == <<98, 97, 114>>
WeddingPresent ==
    <<119, 101, 100, 100, 105, 110, 103, 32, 112, 114, 101, 115, 101, 110, 116>>
OperationNames == {<<>>, Foo, Bar}
OperationMemos == {<<>>, WeddingPresent, <<233>>}
OperationAmounts ==
    { Asset(I64(FALSE, <<1, 0, 0, 0>>), 3, Hive),
      Asset(I64(TRUE, <<1>>), 6, Vests),
      Asset(I64(FALSE, <<0>>), 0, Custom(<<>>)),
      Asset(I64(FALSE, <<7>>), 3,
            Custom(<<"T", "E", "S", "T", "T", "E", "S", "T">>)) }
TransferOperations ==
    { TransferOperation(f, t, a, m) :
          f \in OperationNames, t \in OperationNames, a \in OperationAmounts,
          m \in OperationMemos }
      \cup { TransferToVestingOperation(f, t, a) :
                 f \in OperationNames, t \in OperationNames,
                 a \in OperationAmounts }
      \cup { TransferToSavingsOperation(f, t, a, m) :
                 f \in OperationNames, t \in OperationNames,
                 a \in OperationAmounts, m \in OperationMemos }
      \cup { TransferFromSavingsOperation(f, r, t, a, m) :
                 f \in OperationNames, r \in {U32(0, 0), U32(1, 258)},
                 t \in OperationNames, a \in OperationAmounts,
                 m \in OperationMemos }

OInit ==
    /\ op_input \in TransferOperations
    /\ op_output = NoResult

HiveSerialize ==
    /\ op_output = NoResult
    /\ op_output' = hive_serialize(op_input)
    /\ UNCHANGED op_input
    /\ Frame("operation")

ONext == HiveSerialize

(* ================= Blockchain::get_block_numbers ======================= *)

(* A block number is a u32, kept as its two 16-bit halves (U32).           *)
U32_MAX == U32(65535, 65535)
U32Less(a, b) == a.hi < b.hi \/ (a.hi = b.hi /\ a.lo < b.lo)

(* u32::saturating_add(1)                                                  *)
saturating_add_one(n) ==
    IF n = U32_MAX THEN n
    ELSE IF n.lo = 65535 THEN U32(n.hi + 1, 0)
    ELSE U32(n.hi, n.lo + 1)

(* Option<u32>                                                             *)
NoNumber == [some |-> FALSE, number |-> U32(0, 0)]
SomeNumber(n) == [some |-> TRUE, number |-> n]

(* while current > seen                                                    *)
HasUnseen_Inclusive(current, seen) == ~U32Less(current, seen)
HasUnseen(current, seen) == U32Less(seen, current)

(* if let Some(to) = options.to { if seen > to { return; } }               *)
PastTo(seen, to) == to.some /\ U32Less(to.number, seen)

(* A run stays within a few consecutive block numbers: the first ones, the *)
(* ones around 2^16, or the last ones of the u32 range.                    *)
MaxBlocks == 3
(* the polls of a run that are followed                                   *)
MaxPolls == 4
BlockWindows ==
    { {U32(0, i) : i \in 0 .. MaxBlocks},
      {U32(0, 65535 - 1 + i) : i \in 0 .. 1}
          \cup {U32(1, i) : i \in 0 .. MaxBlocks - 2},
      {U32(65535, 65535 - i) : i \in 0 .. MaxBlocks} }
OptionsIn(numbers) ==
    [from : {NoNumber} \cup {SomeNumber(n) : n \in numbers},
     to : {NoNumber} \cup {SomeNumber(n) : n \in numbers}]

BInit ==
    /\ bn_numbers \in BlockWindows
    /\ bn_options \in OptionsIn(bn_numbers)
    /\ bn_current = U32(0, 0)
    /\ bn_seen = U32(0, 0)
    /\ bn_pc = "created"
    /\ bn_yielded = <<>>
    /\ bn_polled = <<>>
    /\ bn_error = "none"

(* lines 77-87: the first get_current_block_num answers, the check of from *)
(* and the start of seen                                                   *)
FirstPoll ==
    /\ bn_pc = "created"
    /\ \E head \in bn_numbers :
           /\ bn_current' = head
           /\ bn_polled' = Append(bn_polled, head)
           /\ IF bn_options.from.some /\ U32Less(head, bn_options.from.number)
              THEN /\ bn_error' = "Other"
                   /\ bn_pc' = "ended"
                   /\ bn_seen' = bn_seen
              ELSE /\ bn_error' = bn_error
                   /\ bn_pc' = "loop"
                   /\ bn_seen' = IF bn_options.from.some
                                 THEN bn_options.from.number ELSE head
    /\ UNCHANGED <<bn_options, bn_numbers, bn_yielded>>
    /\ Frame("stream")

(* lines 89-92: the loop has a number to give and yields it                *)
Yield ==
    /\ bn_pc = "loop"
    /\ HasUnseen(bn_current, bn_seen)
    /\ bn_yielded' = Append(bn_yielded, bn_seen)
    /\ bn_seen' = saturating_add_one(bn_seen)
    /\ bn_pc' = "yielded"
    /\ UNCHANGED <<bn_options, bn_numbers, bn_current, bn_polled, bn_error>>
    /\ Frame("stream")

(* lines 94-98: polled again after a yield, the generator tests to         *)
Resume ==
    /\ bn_pc = "yielded"
    /\ bn_pc' = IF PastTo(bn_seen, bn_options.to) THEN "ended" ELSE "loop"
    /\ UNCHANGED <<bn_options, bn_numbers, bn_current, bn_seen, bn_yielded,
                   bn_polled, bn_error>>
    /\ Frame("stream")

(* line 101: nothing left to give, the generator sleeps 3 seconds          *)
Sleep ==
    /\ bn_pc = "loop"
    /\ ~HasUnseen(bn_current, bn_seen)
    /\ bn_pc' = "sleeping"
    /\ UNCHANGED <<bn_options, bn_numbers, bn_current, bn_seen, bn_yielded,
                   bn_polled, bn_error>>
    /\ Frame("stream")

(* line 102: get_current_block_num answers whatever the node says          *)
Poll ==
    /\ bn_pc = "sleeping"
    /\ Len(bn_polled) < MaxPolls
    /\ \E head \in bn_numbers :
           /\ bn_current' = head
           /\ bn_polled' = Append(bn_polled, head)
    /\ bn_pc' = "loop"
    /\ UNCHANGED <<bn_options, bn_numbers, bn_seen, bn_yielded, bn_error>>
    /\ Frame("stream")

(* lines 77, 102: get_current_block_num fails, and the stream ends with    *)
(* its error                                                               *)
PollFails ==
    /\ bn_pc \in {"created", "sleeping"}
    /\ bn_error' = "Rpc"
    /\ bn_pc' = "ended"
    /\ UNCHANGED <<bn_options, bn_numbers, bn_current, bn_seen, bn_yielded,
                   bn_polled>>
    /\ Frame("stream")

BNext == FirstPoll \/ Yield \/ Resume \/ Sleep \/ Poll \/ PollFails

(* ===================== specifications ================================= *)

vars == <<fvars, svars, tvars, kvars, xvars, vvars, avars, rvars, mvars, nvars,
         lvars, dvars, hvars, evars, ovars, bvars>>

(* no send() in progress                                                   *)
SIdle ==
    /\ SInit
    /\ transaction = CHOOSE tx \in Transactions : TRUE

(* a transport whose calls are given by their outcomes                     *)
FIdle ==
    /\ FInit
    /\ transports_len = 1
    /\ configured = 1

(* no find_transaction() in progress                                       *)
TIdle ==
    /\ TInit
    /\ transaction_id = CHOOSE id \in TransactionIds : TRUE

(* no sign() in progress                                                   *)
KIdle ==
    /\ KInit
    /\ secret = 1
    /\ digest = 1

(* no sign_transaction() in progress                                       *)
XIdle ==
    /\ XInit
    /\ unsigned_tx = CHOOSE tx \in UnsignedTransactions : TRUE
    /\ keys = <<>>
    /\ chain_id = "zero"

(* no varint being written                                                 *)
VIdle ==
    /\ VInit
    /\ varint_in = U32(0, 0)
    /\ trailing = <<>>

(* no asset being formatted or parsed                                      *)
AIdle ==
    /\ asset = NoAsset
    /\ asset_text = <<>>
    /\ asset_pc = "done"
    /\ parsed = NoResult
    /\ text_parts = NoParts

(* no RC cost being computed                                               *)
RIdle ==
    /\ RInit
    /\ rc_operations = <<>>
    /\ rc_params = CHOOSE v \in RcParamsValues : TRUE
    /\ rc_pool = ConstMap({}, 0)
    /\ rc_regen = 0
    /\ rc_shares = ConstMap({}, 0)
    /\ rc_checks = FALSE

(* no memo being encoded or decoded                                        *)
MIdle ==
    /\ memo_message = <<>>
    /\ sender_private = 1
    /\ receiver_private = 1
    /\ memo_nonce = U64OfNat(0)
    /\ memo_pc = "decoded"
    /\ encoded = NoResult
    /\ decode_input = <<>>
    /\ decode_key = 0
    /\ payload = <<>>
    /\ decoded = NoResult

(* no unique_nonce called                                                  *)
NIdle ==
    /\ NInit
    /\ entropy = <<0>>

(* no library function called                                              *)
LIdle == call = <<"none", <<>>, NoResult>>

(* read_varint32 not called                                                *)
DIdle ==
    /\ read_input = <<>>
    /\ read_pc = "idle"
    /\ read_output = NotRead

(* fallback_share_map not called                                           *)
HIdle ==
    /\ share_params = [resource_names |-> <<>>, resource_params |-> <<>>]
    /\ share_checks = FALSE
    /\ share_pc = "idle"
    /\ share_map = NoResult

(* no cost being evaluated                                                 *)
EIdle ==
    /\ est_operations = <<>>
    /\ est_params = CHOOSE v \in EstimatorParams : TRUE
    /\ est_now = 0
    /\ est_results = <<>>

(* no operation being serialized                                           *)
OIdle ==
    /\ op_input = TransferToVestingOperation(<<>>, <<>>, NoAsset)
    /\ op_output = NoResult

(* no stream of block numbers                                              *)
BIdle ==
    /\ bn_numbers = {}
    /\ bn_options = [from |-> NoNumber, to |-> NoNumber]
    /\ bn_current = U32(0, 0)
    /\ bn_seen = U32(0, 0)
    /\ bn_pc = "none"
    /\ bn_yielded = <<>>
    /\ bn_polled = <<>>
    /\ bn_error = "none"

(* the part named starts from all its inputs, the others stay idle         *)
Start(part) ==
    /\ IF part = "failover" THEN FInit ELSE FIdle
    /\ IF part = "send" THEN SInit ELSE SIdle
    /\ IF part = "find" THEN TInit ELSE TIdle
    /\ IF part = "sign" THEN KInit ELSE KIdle
    /\ IF part = "sign_transaction" THEN XInit ELSE XIdle
    /\ IF part = "varint" THEN VInit ELSE VIdle
    /\ IF part = "asset" THEN AInit ELSE AIdle
    /\ IF part = "rc" THEN RInit ELSE RIdle
    /\ IF part = "memo" THEN MInit ELSE MIdle
    /\ IF part = "nonce" THEN NInit ELSE NIdle
    /\ IF part = "library" THEN LInit ELSE LIdle
    /\ IF part = "reader" THEN DInit ELSE DIdle
    /\ IF part = "shares" THEN HInit ELSE HIdle
    /\ IF part = "estimator" THEN EInit ELSE EIdle
    /\ IF part = "operation" THEN OInit ELSE OIdle
    /\ IF part = "stream" THEN BInit ELSE BIdle

Init == Start("failover")

SendInit == Start("send")

FindInit == Start("find")

SignInit == Start("sign")

SignTxInit == Start("sign_transaction")

VarintInit == Start("varint")

AssetInit == Start("asset")

RcInit == Start("rc")

MemoInit == Start("memo")

NonceInit == Start("nonce")

LibraryInit == Start("library")

ReaderInit == Start("reader")

SharesInit == Start("shares")

EstimatorInit == Start("estimator")

OperationInit == Start("operation")

StreamInit == Start("stream")

Spec == Init /\ [][FNext]_vars

SendSpec == SendInit /\ [][SNext]_vars

FindSpec == FindInit /\ [][TNext]_vars

(* sign() runs to its return: the loop is not suspended                    *)
SignSpec == SignInit /\ [][KNext]_vars /\ WF_vars(KNext)

SignTxSpec == SignTxInit /\ [][XNext]_vars

VarintSpec == VarintInit /\ [][VNext]_vars

AssetSpec == AssetInit /\ [][ANext]_vars

RcSpec == RcInit /\ [][RNext]_vars

MemoSpec == MemoInit /\ [][MNext]_vars

NonceSpec == NonceInit /\ [][NNext]_vars

LibrarySpec == LibraryInit /\ [][LNext]_vars

ReaderSpec == ReaderInit /\ [][DNext]_vars

SharesSpec == SharesInit /\ [][HNext]_vars

EstimatorSpec == EstimatorInit /\ [][ENext]_vars

OperationSpec == OperationInit /\ [][ONext]_vars

StreamSpec == StreamInit /\ [][BNext]_vars

(* ======================= properties of the transport =================== *)

Threshold == IF configured > 1 THEN configured ELSE 1
Returned(t) == pc[t] = "done"
Current(t) == IndexOf(start_index[t], offset[t])
LogNodes(t) == {log[t][i].node : i \in 1 .. Len(log[t])}
LogKinds(t) == {log[t][i].kind : i \in 1 .. Len(log[t])}
TransportKinds == {"Transport", "Timeout", "Serialization"}

(* C1: whenever a call returns Ok with the answer of node i, at that       *)
(* moment failures[i] = 0 and current_index = i.                           *)
C1_SuccessResetsAndSticks ==
    [][\A t \in Tasks :
         (pc[t] # "done" /\ pc'[t] = "done" /\ result'[t].kind = "Ok")
         => /\ result'[t].value.node \in Nodes
            /\ failures'[result'[t].value.node] = 0
            /\ current_index' = result'[t].value.node]_vars

C1_Witness ==
    \E t \in Tasks :
        /\ Returned(t) /\ result[t].kind = "Ok"
        /\ Len(log[t]) >= 2
        /\ result[t].value.node # 0
        /\ current_index = result[t].value.node
        /\ failures[current_index] = 0

(* C2: when the node being tried answers with a JSON-RPC error, the call   *)
(* has returned exactly that Rpc error and the erroring node is the last   *)
(* node contacted by the call.                                             *)
C2_RpcErrorReturnedAtOnce ==
    \A t \in Tasks :
        resp[t].kind = "Rpc"
        => /\ Returned(t)
           /\ result[t] = resp[t]
           /\ Len(log[t]) = offset[t] + 1
           /\ log[t][Len(log[t])] = [node |-> Current(t), kind |-> "Rpc"]

C2_Witness ==
    \E t \in Tasks :
        /\ transports_len >= 2
        /\ Returned(t)
        /\ result[t] = Rpc(DefaultRpcCode, <<"unknown", "rpc", "error">>,
                           "detail")
        /\ log[t] = <<[node |-> 0, kind |-> "Rpc"]>>

(* C3: a returned call gives AllNodesFailed exactly when every node of the *)
(* ring was tried in it and every attempt failed at the transport level;   *)
(* an Ok or Rpc answer makes it return that outcome.                       *)
C3_AllNodesFailedExactly ==
    \A t \in Tasks :
        Returned(t)
        => /\ result[t].kind = "AllNodesFailed"
                <=> (LogNodes(t) = Nodes /\ LogKinds(t) \subseteq {"Failed"})
           /\ LogKinds(t) \cap {"Ok", "Rpc"} # {}
                => /\ result[t].kind = log[t][Len(log[t])].kind
                   /\ result[t] = resp[t]

C3_Witness ==
    \E t \in Tasks :
        /\ Returned(t) /\ result[t].kind = "AllNodesFailed"
        /\ transports_len >= 2
        /\ Len(log[t]) = transports_len

(* C4: a transport failure of node i adds exactly one to failures[i] and   *)
(* leaves the other counters alone; current_index becomes the next node of *)
(* the ring when the new value has reached max(1, configured), and is      *)
(* unchanged when it is still below.                                       *)
C4_FailureStep ==
    [][\A t \in Tasks :
         (pc[t] = "cs_err" /\ pc'[t] = "sleep")
         => /\ failures'[Current(t)] = failures[Current(t)] + 1
            /\ \A j \in Nodes \ {Current(t)} : failures'[j] = failures[j]
            /\ IF failures'[Current(t)] >= Threshold
               THEN current_index' = (Current(t) + 1) % transports_len
               ELSE current_index' = current_index]_vars

C4_Witness ==
    \E t \in Tasks :
        /\ pc[t] = "sleep"
        /\ configured = 0
        /\ transports_len >= 2
        /\ failures[Current(t)] = 1
        /\ current_index = (Current(t) + 1) % transports_len
        /\ current_index # snap[t].current_index

(* C5 as stated: the sticky node is the node that most recently answered   *)
(* successfully for as long as that node's own counter is below the        *)
(* threshold.                                                              *)
C5_StickyWhileOwnCounterLow ==
    (last_success # -1 /\ failures[last_success] < failover_threshold)
    => current_index = last_success

(* C5 amended: the sticky node is the node that most recently answered     *)
(* successfully for as long as no transport failure since that success     *)
(* has brought any node's counter to the threshold; and a call that reads  *)
(* its start takes the sticky node.                                        *)
C5_StickyUntilAnyCrossing ==
    [][/\ (last_success' # -1 /\ ~crossed') => current_index' = last_success'
       /\ \A t \in Tasks :
            (pc[t] = "read_start" /\ pc'[t] = "http")
            => start_index'[t] = current_index]_vars

C5_Witness ==
    /\ last_success # -1 /\ ~crossed
    /\ last_success # 0
    /\ failures[last_success] >= 1
    /\ current_index = last_success
    /\ \E t \in Tasks :
         pc[t] = "sleep" /\ offset[t] = 0 /\ start_index[t] = last_success

(* C6: a call that is inside an HTTP request or a backoff sleep does not   *)
(* hold the state mutex.                                                   *)
C6_LockNotHeldAcrossIo ==
    \A t \in Tasks : pc[t] \in {"http", "sleep"} => lock # t

C6_Witness ==
    \E t \in Tasks, u \in Tasks :
        /\ t # u
        /\ pc[t] = "sleep"
        /\ pc[u] = "cs_err"
        /\ lock = u

(* the sticky index after the first k failure updates of task t's call,    *)
(* applied to the state the call started from                              *)
RECURSIVE IndexAfter(_, _)
IndexAfter(t, k) ==
    IF k = 0 THEN snap[t].current_index
    ELSE LET i == IndexOf(start_index[t], k - 1) IN
         IF snap[t].failures[i] + 1 >= Threshold
         THEN (i + 1) % transports_len
         ELSE IndexAfter(t, k - 1)

FailedBy(t) == {IndexOf(start_index[t], j) : j \in 0 .. (committed[t] - 1)}

(* C7 as stated: a dropped call leaves current_index and failures as they  *)
(* were before the call started (no other call having written).            *)
C7_CancelLeavesNoTrace ==
    \A t \in Tasks :
        (pc[t] = "cancelled" /\ ~interfered[t])
        => /\ current_index = snap[t].current_index
           /\ failures = snap[t].failures

(* C7 amended: a dropped call leaves the updates of the node attempts      *)
(* whose failure it had recorded before the drop: each such node's counter *)
(* is one higher than before the call and current_index is where the last  *)
(* threshold crossing among them put it; a call dropped before any failure *)
(* was recorded leaves the state as it found it.                           *)
C7_CancelKeepsCommittedFailures ==
    \A t \in Tasks :
        (pc[t] = "cancelled" /\ ~interfered[t])
        => /\ failures = [i \in Nodes |->
                            snap[t].failures[i]
                            + (IF i \in FailedBy(t) THEN 1 ELSE 0)]
           /\ current_index = IndexAfter(t, committed[t])
           /\ committed[t] = 0
                => /\ current_index = snap[t].current_index
                   /\ failures = snap[t].failures

C7_Witness ==
    \E t \in Tasks :
        /\ pc[t] = "cancelled" /\ ~interfered[t]
        /\ committed[t] >= 1
        /\ failures # snap[t].failures
        /\ current_index # snap[t].current_index

(* C8 as stated: the error a call returns is the error value that the node *)
(* request produced.                                                       *)
C8_ErrorsUnchanged ==
    \A t \in Tasks :
        (Returned(t) /\ result[t].kind # "Ok" /\ Len(log[t]) > 0)
        => ClientCall(result[t]) = resp[t]

(* C8 amended: an Rpc error of a node request is returned unchanged; a     *)
(* Transport, Timeout or Serialization error of a node request is never    *)
(* returned: it is counted as a failure of the node and the call returns   *)
(* AllNodesFailed once the last node of the ring has failed.               *)
C8_RpcUnchangedOthersAbsorbed ==
    \A t \in Tasks :
        (Returned(t) /\ result[t].kind # "Ok")
        => \/ /\ resp[t].kind = "Rpc"
              /\ ClientCall(result[t]) = resp[t]
           \/ /\ resp[t].kind \in TransportKinds
              /\ ClientCall(result[t]) = AllNodesFailed
              /\ Len(log[t]) = transports_len
           \/ /\ transports_len = 0
              /\ ClientCall(result[t]) = AllNodesFailed

C8_Witness ==
    \E t \in Tasks :
        /\ Returned(t)
        /\ resp[t].kind = "Timeout"
        /\ result[t] = AllNodesFailed

(* ======================= properties of send() ========================== *)

SendReturned == send_pc = "done"
TookFallback == Len(requests) >= 2
PollsIssued ==
    Cardinality({i \in 1 .. Len(requests) : requests[i] = "get_transaction"})
MethodNotFound(message) ==
    \/ contains(to_ascii_lowercase(message), <<"could", "not", "find", "method">>)
    \/ contains(to_ascii_lowercase(message), <<"could", "not", "find", "api">>)
TransportFailure(r) == r.kind \in {"Transport", "Timeout", "AllNodesFailed"}
UnsignedPart(tx) ==
    [ref_block_num |-> tx.ref_block_num,
     ref_block_prefix |-> tx.ref_block_prefix,
     expiration |-> tx.expiration,
     operations |-> tx.operations,
     extensions |-> tx.extensions]

(* C9: send issues broadcast_transaction_synchronous first; it issues      *)
(* broadcast_transaction only second and only after the synchronous call   *)
(* failed with a transport failure or a method/api-not-found RPC error; an *)
(* Ok synchronous result and any other error are returned as they are      *)
(* without a further RPC; get_transaction is polled only after the         *)
(* asynchronous broadcast, at most 15 times, a 1 s sleep between polls.    *)
C9_SendCallOrder ==
    /\ send_pc # "idle" =>
         /\ Len(requests) >= 1
         /\ requests[1] = "broadcast_transaction_synchronous"
    /\ \A i \in 1 .. Len(requests) :
         /\ requests[i] = "broadcast_transaction_synchronous" => i = 1
         /\ requests[i] = "broadcast_transaction" =>
              /\ i = 2
              /\ \/ TransportFailure(sync_result)
                 \/ /\ sync_result.kind = "Rpc"
                    /\ MethodNotFound(sync_result.err.message)
         /\ requests[i] = "get_transaction" =>
              /\ i >= 3
              /\ requests[2] = "broadcast_transaction"
    /\ (SendReturned /\ sync_result.kind = "Ok") =>
         /\ send_result = sync_result
         /\ Len(requests) = 1
    /\ (SendReturned /\ sync_result.kind = "Rpc"
          /\ ~MethodNotFound(sync_result.err.message)) =>
         /\ send_result = sync_result
         /\ Len(requests) = 1
    /\ PollsIssued <= 15
    /\ PollsIssued >= 1 => sleeps >= PollsIssued - 1
    /\ sleeps <= PollsIssued

C9_Witness ==
    /\ SendReturned
    /\ sync_result.kind = "Rpc"
    /\ PollsIssued = 15
    /\ sleeps = 14
    /\ send_result.kind = "Ok"

(* C10 as stated: on the fallback path every Ok confirmation was built     *)
(* from a get_transaction response that found the transaction, with the    *)
(* id of the unsigned transaction.                                         *)
C10_ConfirmationOnlyWhenFound ==
    (SendReturned /\ TookFallback /\ send_result.kind = "Ok")
    => /\ found # <<>>
       /\ send_result.value.id = generate_trx_id(UnsignedPart(transaction)).value
       /\ send_result.value.block_num = AsU32OrZero(found[1].block_num)

(* C10 amended: on the fallback path every Ok confirmation carries the id  *)
(* of the unsigned transaction and either was built from a get_transaction *)
(* response that found the transaction or, when all 15 polls failed with   *)
(* transient lookup errors, is the placeholder with block_num = 0,         *)
(* trx_num = 0 and expired = false for a transaction no poll has found.    *)
C10_ConfirmationFoundOrPlaceholder ==
    (SendReturned /\ TookFallback /\ send_result.kind = "Ok")
    => /\ send_result.value.id = generate_trx_id(UnsignedPart(transaction)).value
       /\ send_result.value.expired = FALSE
       /\ \/ /\ found # <<>>
             /\ send_result.value.block_num = AsU32OrZero(found[1].block_num)
             /\ send_result.value.trx_num =
                  AsU32OrZero(IF found[1].transaction_num # <<>>
                              THEN found[1].transaction_num
                              ELSE found[1].trx_num)
          \/ /\ found = <<>>
             /\ PollsIssued = 15
             /\ sleeps = 15
             /\ send_result.value.block_num = 0
             /\ send_result.value.trx_num = 0

C10_Witness ==
    /\ SendReturned /\ TookFallback
    /\ send_result.kind = "Ok"
    /\ found = <<>>
    /\ Len(transaction.signatures) = 2

(* =================== properties of find_transaction ==================== *)

FindReturned == find_pc = "done"
AskedCondenser ==
    \E i \in 1 .. Len(find_requests) : find_requests[i] = "get_transaction"
UnknownTransactionClass(message) ==
    \E pattern \in { <<"unknown", "transaction">>,
                     <<"unable", "to", "find", "transaction">>,
                     <<"missing", "transaction">> } :
        contains(to_ascii_lowercase(message), pattern)

(* C11: a successful transaction_status_api answer is returned unchanged;  *)
(* condenser_api.get_transaction is requested only after the first call    *)
(* failed with an Rpc error whose message names a missing method or api;   *)
(* in the fallback an Ok answer gives status "found_in_block", an Rpc      *)
(* error of the unknown-transaction class gives Ok with status "unknown",  *)
(* and every other error of either call is the error returned.             *)
C11_FindTransactionFallback ==
    /\ find_requests # <<>> => find_requests[1] = "find_transaction"
    /\ AskedCondenser
         => /\ find_requests = <<"find_transaction", "get_transaction">>
            /\ status_result.kind = "Rpc"
            /\ MethodNotFound(status_result.err.message)
    /\ FindReturned
         => /\ status_result.kind = "Ok" => find_result = status_result
            /\ (status_result.kind # "Ok" /\ ~AskedCondenser)
                 => find_result = status_result
            /\ (status_result.kind = "Rpc"
                    /\ MethodNotFound(status_result.err.message))
                 => AskedCondenser
            /\ AskedCondenser
                 => IF condenser_result.kind = "Ok"
                    THEN find_result = Ok([status |-> "found_in_block"])
                    ELSE IF /\ condenser_result.kind = "Rpc"
                            /\ UnknownTransactionClass(
                                   condenser_result.err.message)
                    THEN find_result = Ok([status |-> "unknown"])
                    ELSE /\ find_result = condenser_result
                         /\ find_result.kind # "Ok"

C11_Witness ==
    /\ FindReturned
    /\ status_result.kind = "Rpc"
    /\ status_result.err.message[1] = "Assert"
    /\ condenser_result.kind = "Rpc"
    /\ condenser_result.err.message = <<"Missing", "Transaction", "deadbeef">>
    /\ find_result = Ok([status |-> "unknown"])

(* ====================== properties of sign() =========================== *)

SignReturned == sign_pc = "done"
CanonicalBytes(c) ==
    /\ c.r[1] < 128 /\ c.s[1] < 128
    /\ ~(c.r[1] = 0 /\ c.r[2] < 128)
    /\ ~(c.s[1] = 0 /\ c.s[2] < 128)
SignedCanonical ==
    /\ sign_result.kind = "Ok"
    /\ sign_result.value.len = 65
    /\ CanonicalBytes(sign_result.value.compact)
    /\ sign_result.value.data0 - 31 \in 0 .. 3
SignGaveUp ==
    /\ sign_result.kind = "Signing"
    /\ attempts = 65535
    /\ rejected = 65535

(* C12: sign() always returns; what it returns is either a 65-byte         *)
(* signature with a canonical (r, s) part whose first byte is              *)
(* recovery_id + 31 with recovery_id in 0..3, or a Signing error after     *)
(* 65,535 attempts that were all not canonical.                            *)
C12_SignTerminatesCanonical ==
    /\ [](SignReturned => (SignedCanonical \/ SignGaveUp))
    /\ <>SignReturned

C12_Witness ==
    /\ SignReturned
    /\ SignedCanonical
    /\ rejected >= 1
    /\ sign_result.value.compact.r = <<0, 128>>

C12_WitnessGaveUp == SignReturned /\ SignGaveUp

(* ================= properties of sign_transaction ====================== *)

SignTxReturned == signtx_pc = "done"
DigestOf(tx, chain) == sha256_of(chain, <<"bytes", tx>>)
Serializable(tx) ==
    /\ tx.expiration \in {"2017-07-15T16:51:19", "2017-07-15T16:51:19Z",
                           "2024-01-01T00:00:00"}
    /\ \A i \in 1 .. Len(tx.operations) : tx.operations[i] \notin {"pow", "pow2"}
AllKeysSign(tx, ks, chain) ==
    \A i \in 1 .. Len(ks) : sign(ks[i], DigestOf(tx, chain)).kind = "Ok"

(* C13: sign_transaction with keys k1..kn returns a SignedTransaction with *)
(* exactly n signatures, the i-th being the hex form of the signature of   *)
(* ki over the digest of chain id and serialized transaction, and with the *)
(* other five fields copied; when the digest or one signature fails, it    *)
(* returns that error and no transaction.                                  *)
C13_SignTransactionInOrder ==
    SignTxReturned
    => IF Serializable(unsigned_tx) /\ AllKeysSign(unsigned_tx, keys, chain_id)
       THEN /\ signtx_result.kind = "Ok"
            /\ Len(signtx_result.value.signatures) = Len(keys)
            /\ \A i \in 1 .. Len(keys) :
                  signtx_result.value.signatures[i]
                    = to_hex(sign(keys[i],
                                  DigestOf(unsigned_tx, chain_id)).value)
            /\ \A f \in {"ref_block_num", "ref_block_prefix", "expiration",
                          "operations", "extensions"} :
                  signtx_result.value[f] = unsigned_tx[f]
       ELSE /\ signtx_result.kind \in {"Serialization", "Signing"}
            /\ signtx_result.value = NoValue
            /\ signtx_result.kind = "Serialization" <=> ~Serializable(unsigned_tx)

C13_Witness ==
    /\ SignTxReturned
    /\ signtx_result.kind = "Ok"
    /\ Len(keys) = 2 /\ keys[1] > keys[2]
    /\ chain_id = "mainnet"
    /\ signtx_result.value.signatures[1] # signtx_result.value.signatures[2]

C13_WitnessOneKeyFails ==
    /\ SignTxReturned
    /\ signtx_result.kind = "Signing"
    /\ Len(keys) = 2
    /\ sign(keys[1], DigestOf(unsigned_tx, chain_id)).kind = "Ok"

(* ==================== properties of the varint ========================= *)

(* bit j of a u32, and the k-th group of seven bits                        *)
BitOf(v, j) ==
    IF j > 31 THEN 0
    ELSE IF j < 16 THEN (v.lo \div Pow2(j)) % 2
    ELSE (v.hi \div Pow2(j - 16)) % 2
GroupOf(v, k) ==
    BitOf(v, 7 * k) + 2 * BitOf(v, 7 * k + 1) + 4 * BitOf(v, 7 * k + 2)
      + 8 * BitOf(v, 7 * k + 3) + 16 * BitOf(v, 7 * k + 4)
      + 32 * BitOf(v, 7 * k + 5) + 64 * BitOf(v, 7 * k + 6)
(* the number of seven-bit groups up to the highest set bit, at least one  *)
GroupsOf(v) ==
    IF \A k \in 1 .. 4 : GroupOf(v, k) = 0 THEN 1
    ELSE 1 + CHOOSE k \in 1 .. 4 :
                 GroupOf(v, k) # 0 /\ \A m \in (k + 1) .. 4 : GroupOf(v, m) = 0

(* C14: read_varint32 of the bytes written by write_varint32(v) returns v  *)
(* and consumes exactly those bytes, which are 1 to 5 bytes holding seven  *)
(* value bits each, with the high bit set on every byte but the last.      *)
C14_VarintRoundTrip ==
    varint_pc \in {"read", "done"}
    => /\ Len(buf) \in 1 .. 5
       /\ Len(buf) = GroupsOf(varint_in)
       /\ \A i \in 1 .. Len(buf) :
             buf[i] = GroupOf(varint_in, i - 1)
                        + (IF i < Len(buf) THEN 128 ELSE 0)
       /\ varint_pc = "done"
            => /\ read_result = Ok(varint_in)
               /\ cursor = trailing
               /\ read_index = Len(buf)

C14_Witness ==
    /\ varint_pc = "done"
    /\ varint_in = U32(65535, 65535)
    /\ buf = <<255, 255, 255, 255, 15>>
    /\ trailing = <<255, 255>>
    /\ read_result = Ok(varint_in)

(* ================== properties of the asset strings ==================== *)

FixedPrecision(name) ==
    CASE name \in { <<"H", "I", "V", "E">>, <<"H", "B", "D">>,
                    <<"S", "T", "E", "E", "M">>, <<"S", "B", "D">>,
                    <<"T", "E", "S", "T", "S">>, <<"T", "B", "D">> } -> 3
      [] name = <<"V", "E", "S", "T", "S">> -> 6
      [] OTHER -> -1
UpperName(name) ==
    IF name = <<"h", "i", "v", "e">> THEN <<"H", "I", "V", "E">>
    ELSE IF name = <<"v", "e", "s", "t", "s">> THEN <<"V", "E", "S", "T", "S">>
    ELSE name
DigitsAfterPoint(parts) ==
    IF parts.fraction = <<>> THEN 0 ELSE Len(parts.fraction) - 1
RoundTripped == asset_pc = "done" /\ asset # NoAsset
ParsedText == asset_pc = "done" /\ text_parts # NoParts

(* C15: for every asset with symbol HIVE, HBD or VESTS, that symbol's      *)
(* precision and any i64 amount, from_string(to_string(A)) = A; and        *)
(* from_string answers InvalidAsset to every string of a known symbol or   *)
(* alias whose count of digits after the point is not that precision.      *)
C15_AssetStringRoundTrip ==
    /\ RoundTripped => parsed = Ok(asset)
    /\ (ParsedText
          /\ FixedPrecision(UpperName(text_parts.symbol)) >= 0
          /\ DigitsAfterPoint(text_parts)
               # FixedPrecision(UpperName(text_parts.symbol)))
         => parsed = InvalidAsset

C15_Witness ==
    /\ RoundTripped
    /\ asset = Asset(I64(TRUE, I64_MIN_ABS), 6, Vests)
    /\ asset_text = <<"-", "9", "2", "2", "3", "3", "7", "2", "0", "3", "6",
                      "8", "5", "4", ".", "7", "7", "5", "8", "0", "8", " ",
                      "V", "E", "S", "T", "S">>
    /\ parsed = Ok(asset)

C15_WitnessRejected ==
    /\ ParsedText
    /\ text_parts.symbol = <<"S", "B", "D">>
    /\ DigitsAfterPoint(text_parts) = 6
    /\ parsed = InvalidAsset

(* ================== properties of the RC estimator ===================== *)

RcReturned == rc_pc = "done"
SizeInfo(kind, key) ==
    IF key \in DOMAIN rc_params.size_info[kind]
    THEN rc_params.size_info[kind][key] ELSE 0
(* what a transaction without operations uses: 12 serialized bytes, the    *)
(* signature vector byte and one 65-byte signature, and the base charges   *)
BaseUsage ==
    [history_bytes |-> 78, new_accounts |-> 0, market_bytes |-> 0,
     state_bytes |-> SizeInfo("resource_state_bytes", "transaction_base_size"),
     execution_time |->
         SizeInfo("resource_execution_time", "transaction_time")
           + SizeInfo("resource_execution_time", "verify_authority_time")]
NameOrder ==
    IF rc_params.resource_names # <<>> THEN rc_params.resource_names
    ELSE KNOWN_RESOURCE_NAMES
           \o (IF "resource_custom" \in DOMAIN rc_params.resource_params
               THEN <<"resource_custom">> ELSE <<>>)
SameResult(a, b) ==
    /\ a.kind = b.kind
    /\ a.kind = "Ok" => a.value = b.value
IsOkZero(r) == r.kind = "Ok" /\ r.value = 0
HistoryPriced ==
    /\ \E i \in 1 .. Len(NameOrder) : NameOrder[i] = "resource_history_bytes"
    /\ "resource_history_bytes" \in DOMAIN rc_params.resource_params
    /\ rc_params.resource_params["resource_history_bytes"].resource_unit > 0
    /\ "resource_history_bytes" \in DOMAIN rc_shares
    /\ (rc_regen * rc_shares["resource_history_bytes"]) \div 10000 >= 1

MemoDecoded == memo_pc = "decoded"
(* decode was given a '#'-prefixed memo                                    *)
EncryptedInput == decode_input # <<>> /\ decode_input[1] = NumberSign
PayloadRead == payload # <<>>
InvalidKeyError == Signing(<<"Invalid", "key">>)
(* the check decode derives from its key, the counterparty key and the     *)
(* nonce of the payload                                                    *)
RederivedCheck ==
    derive_aes_params(decode_key, other_public(payload[1], decode_key),
                      payload[1].nonce).check
CheckMismatch == PayloadRead /\ payload[1].check # RederivedCheck
FinalCharChanged ==
    /\ encoded.kind = "Ok"
    /\ decode_input \in FinalChanged(encoded.value)
(* the payload read has the keys, the nonce and the check word that        *)
(* encode_with_nonce wrote                                                 *)
HeaderAsWritten ==
    /\ PayloadRead
    /\ payload[1].from = public_key(sender_private)
    /\ payload[1].to = public_key(receiver_private)
    /\ payload[1].nonce = memo_nonce
    /\ payload[1].check =
           derive_aes_params(sender_private, public_key(receiver_private),
                             memo_nonce).check
IsInvalidKey(r) == r.kind = "Signing" /\ r.err.message = <<"Invalid", "key">>

C17_WitnessMismatch ==
    /\ MemoDecoded
    /\ EncryptedInput
    /\ CheckMismatch
    /\ IsInvalidKey(decoded)

(* the final character changed and a text comes back all the same          *)
C17_WitnessWrongText ==
    /\ MemoDecoded
    /\ EncryptedInput
    /\ FinalCharChanged
    /\ decoded.kind = "Ok"

(* C18: a message beginning with '#', encoded by encode_with_nonce for a   *)
(* receiver's public key, decodes to the same message with the sender's    *)
(* private key and with the receiver's private key.                        *)
C18_MemoRoundTrip ==
    ( /\ MemoDecoded
      /\ memo_message # <<>>
      /\ memo_message[1] = NumberSign
      /\ decode_input = encoded.value
      /\ decode_key \in {sender_private, receiver_private} ) =>
        /\ decoded.kind = "Ok"
        /\ decoded.value = memo_message

(* the receiver, who is not the sender, reads a message that takes more    *)
(* than one byte a character                                               *)
C18_Witness ==
    /\ MemoDecoded
    /\ Len(memo_message) > 1
    /\ memo_message[1] = NumberSign
    /\ \E i \in 1 .. Len(memo_message) : memo_message[i] > 127
    /\ decode_input = encoded.value
    /\ decode_key = receiver_private
    /\ receiver_private # sender_private
    /\ decoded.kind = "Ok"
    /\ decoded.value = memo_message

(* the sender reads their own memo back                                    *)
C18_WitnessSender ==
    /\ MemoDecoded
    /\ Len(memo_message) >= 16
    /\ memo_message[1] = NumberSign
    /\ decode_input = encoded.value
    /\ decode_key = sender_private
    /\ receiver_private # sender_private
    /\ decoded.kind = "Ok"
    /\ decoded.value = memo_message

(* ===================== properties of unique_nonce ====================== *)

(* C19: unique_nonce never returns a value twice. Stated of the first      *)
(* value returned: no later call, of the same or of another thread, in the *)
(* same millisecond or a later one, returns it again.                      *)
C19_NonceNeverRepeats ==
    [][\A t \in NonceThreads :
         ((FetchAdd(t) \/ CallRun(t)) /\ first_nonce # <<>>)
             => last_nonce' # first_nonce]_vars

(* a call returns what the first call returned                             *)
C19_Repeated ==
    /\ calls + runs > 1
    /\ last_nonce = first_nonce

(* ============== properties of the fallible functions =================== *)

(* the variants of HiveError                                               *)
HiveErrorKinds ==
    {"Rpc", "Transport", "Serialization", "InvalidKey", "Signing",
     "AllNodesFailed", "Timeout", "InvalidAsset", "Other"}

(* C20: PublicKey::from_string, PrivateKey::from_wif, Asset::from_string,  *)
(* the formatting of an Asset, memo::decode, serialize_transaction and the *)
(* RC cost function return Ok or a typed error for every input and never   *)
(* panic; the only panic is Client::new called with an empty node list.    *)
C20_OnlyEmptyNodeListPanics ==
    function # "" =>
        /\ call_result.kind \in {"Ok", "Panic"} \cup HiveErrorKinds
        /\ call_result.kind = "Panic" =>
               (function = "Client::new" /\ argument.nodes = <<>>)

(* a panic outside Client::new                                             *)
C20_PanicElsewhere ==
    /\ function \in {"PublicKey::from_string", "Asset::to_string"}
    /\ call_result.kind = "Panic"

(* ================ failure accounting of the transport ================== *)

(* task t commits the Ok arm for the node it contacted                     *)
SucceedsOn(t, i) ==
    pc[t] = "cs_ok" /\ pc'[t] = "done" /\ resp[t].kind = "Ok" /\ Current(t) = i

(* task t commits the failure of the node it contacted                     *)
FailsOn(t, i) ==
    pc[t] = "cs_err" /\ pc'[t] = "sleep" /\ Current(t) = i

(* task t receives an RPC error response and returns it                    *)
GetsRpcError(t) ==
    pc[t] = "http" /\ pc'[t] = "done" /\ resp'[t].kind = "Rpc"

(* C21: failures[i] never decreases except by being set to 0 when node i   *)
(* answers a call successfully; a transport failure of another node        *)
(* leaves failures[i] unchanged, and an RPC error response from any node   *)
(* changes neither the failure counters nor current_index.                 *)
C21_FailuresMonotonic ==
    [][\A i \in DOMAIN failures :
          /\ failures'[i] < failures[i] =>
                 /\ failures'[i] = 0
                 /\ \E t \in Tasks : SucceedsOn(t, i)
          /\ (\E t \in Tasks : \E j \in DOMAIN failures :
                  j # i /\ FailsOn(t, j)) => failures'[i] = failures[i]
          /\ (\E t \in Tasks : GetsRpcError(t)) =>
                 (failures' = failures /\ current_index' = current_index)
      ]_vars

(* a node has failures on record, another node has answered and has none,  *)
(* and a call has returned an RPC error                                    *)
C21_Witness ==
    \E i, j \in DOMAIN failures :
        /\ i # j
        /\ failures[i] > 0
        /\ last_success = j /\ failures[j] = 0
        /\ \E t \in Tasks : Returned(t) /\ result[t].kind = "Rpc"
                            /\ \E k \in 1 .. Len(log[t]) :
                                   log[t][k].kind = "Failed"

(* ================== the attempts of one call =========================== *)

(* the node the k-th attempt of a call goes to when the ring is walked     *)
(* from start                                                              *)
RingNode(start, k) == (start + (k - 1)) % transports_len

(* C22: a call makes at most N node attempts: the k-th attempt goes to     *)
(* node (start + k - 1) mod N, where start is the current_index read once  *)
(* at the beginning of the call, so that every node is contacted at most   *)
(* once, whatever this or another call does to current_index meanwhile.    *)
C22_AtMostOnePassOfTheRing ==
    \A t \in Tasks :
        /\ Len(log[t]) <= transports_len
        /\ pc[t] = "http" => Len(log[t]) < transports_len
        /\ \A k \in 1 .. Len(log[t]) :
               log[t][k].node = RingNode(start_index[t], k)
        /\ \A k, l \in 1 .. Len(log[t]) :
               k # l => log[t][k].node # log[t][l].node

(* a call has tried every node of a ring of two or more once and given    *)
(* up, while another call moved current_index away from its start          *)
C22_Witness ==
    \E t \in Tasks :
        /\ transports_len >= 2
        /\ Returned(t) /\ result[t].kind = "AllNodesFailed"
        /\ Len(log[t]) = transports_len
        /\ interfered[t]
        /\ current_index # start_index[t]

(* ================== the nonce data of the attempts ===================== *)

(* C23: within one sign call no two attempts use the same nonce data       *)
(* sha256(digest || k), k being the attempt counter. Stated of the first   *)
(* attempt: no later attempt uses the nonce data of attempt 1.             *)
C23_NonceDataNeverReused ==
    [][(SignAttempt /\ attempts >= 1) =>
           nonce_seed(digest, attempts') # nonce_seed(digest, 1)]_vars

(* an attempt beyond the range of a byte has been made                     *)
C23_CounterPastOneByte == sign_pc = "loop" /\ attempts > U8_RANGE

(* =================== the errors of read_varint32 ======================= *)

(* positions of the bytes without the continuation bit                     *)
EndBytes(raw) == { k \in 1 .. Len(raw) : raw[k] < 128 }

(* the input ends before a byte without the continuation bit               *)
Truncated(raw) == EndBytes(raw) = {}

(* the length of the encoding the input starts with                        *)
EncodingLen(raw) == CHOOSE k \in EndBytes(raw) : \A l \in EndBytes(raw) : k <= l

(* the encoding carries a bit at position 28 or above                      *)
MoreThan28Bits(raw) ==
    /\ ~Truncated(raw)
    /\ \E k \in 5 .. EncodingLen(raw) : raw[k] % 128 # 0

(* the 7-bit group at position k of the input, 0 beyond the encoding       *)
GroupAt(raw, k) == IF k <= EncodingLen(raw) THEN raw[k] % 128 ELSE 0

(* the number the first five groups stand for, modulo 2^32                 *)
GroupsValue(raw) ==
    LET low28 == GroupAt(raw, 1) + 128 * GroupAt(raw, 2)
                 + 16384 * GroupAt(raw, 3) + 2097152 * GroupAt(raw, 4)
    IN U32((low28 \div 65536) + (GroupAt(raw, 5) % 16) * 4096,
           low28 % 65536)

(* C24 as stated: read_varint32 fails with a Serialization error on        *)
(* truncated input and on every encoding that carries more than 28         *)
(* significant bits.                                                       *)
C24_MoreThan28BitsRejected ==
    read_pc = "done" =>
        /\ Truncated(read_input) => read_output.kind = "Serialization"
        /\ MoreThan28Bits(read_input) => read_output.kind = "Serialization"

(* C24, amended: read_varint32 fails with a Serialization error exactly    *)
(* when none of the first five bytes of the input is without the           *)
(* continuation bit (the input ends first, or the encoding is longer than  *)
(* five bytes); otherwise it returns the number of the 7-bit groups        *)
(* modulo 2^32 and leaves the cursor after the encoding.                   *)
C24_FailsIffNoEndInFiveBytes ==
    read_pc = "done" =>
        IF Truncated(read_input) \/ EncodingLen(read_input) > 5
        THEN read_output.kind = "Serialization"
        ELSE /\ read_output.kind = "Ok"
             /\ read_output.n = GroupsValue(read_input)
             /\ read_output.rest =
                    SubSeq(read_input, EncodingLen(read_input) + 1,
                           Len(read_input))

(* an encoding of five bytes with bits above bit 31 has been read          *)
C24_Witness ==
    /\ read_pc = "done"
    /\ ~Truncated(read_input)
    /\ EncodingLen(read_input) = 5
    /\ read_input[5] > 15
    /\ read_output.kind = "Ok"

(* an encoding of six bytes and a truncated input have been rejected       *)
C24_WitnessRejected ==
    /\ read_pc = "done"
    /\ read_output.kind = "Serialization"
    /\ Len(read_input) = 6
    /\ ~Truncated(read_input)

(* ======================= the fallback shares =========================== *)

(* the budget_per_time_unit of a resource, 0 without parameters            *)
BudgetGiven(params, name) ==
    IF name \in DOMAIN params.resource_params
    THEN Trim(params.resource_params[name].budget_per_time_unit)
    ELSE <<>>

RECURSIVE BudgetsTotal(_, _)
BudgetsTotal(names, params) ==
    IF names = <<>> THEN <<>>
    ELSE Trim(WideAdd(BudgetGiven(params, Head(names)),
                      BudgetsTotal(Tail(names), params), 0))

(* share = floor(budget * 10,000 / total), for total > 0                   *)
IsFloorShare(share, budget, total) ==
    /\ share >= 0
    /\ WideLessEq(WideMul(total, share, 0),
                  WideMul(budget, RC_SHARE_BASIS_POINTS, 0))
    /\ ~WideLessEq(WideMul(total, share + 1, 0),
                   WideMul(budget, RC_SHARE_BASIS_POINTS, 0))

RECURSIVE SumOver(_, _)
SumOver(map, keyset) ==
    IF keyset = {} THEN 0
    ELSE LET k == CHOOSE k \in keyset : TRUE
         IN map[k] + SumOver(map, keyset \ {k})

(* C25: fallback_share_map gives every non-new-accounts resource except    *)
(* the last the share floor(budget * 10,000 / sum of the budgets) and the  *)
(* last the remainder: the shares of the non-new-accounts resources are    *)
(* >= 0 and sum to exactly 10,000 whenever there is such a resource, and   *)
(* resource_new_accounts has the share 10,000.                             *)
C25_SharesSumToBasisPoints ==
    share_pc = "done" =>
        LET names == NonNewNames(share_params)
            total == BudgetsTotal(names, share_params)
        IN /\ share_map.kind = "Ok"
           /\ share_map.value[RESOURCE_NEW_ACCOUNTS] = RC_SHARE_BASIS_POINTS
           /\ \A i \in 1 .. Len(names) : share_map.value[names[i]] >= 0
           /\ names # <<>> =>
                  SumOver(share_map.value,
                          DOMAIN share_map.value \ {RESOURCE_NEW_ACCOUNTS})
                      = RC_SHARE_BASIS_POINTS
           /\ total # <<>> =>
                  \A i \in 1 .. (Len(names) - 1) :
                      IsFloorShare(share_map.value[names[i]],
                                   BudgetGiven(share_params, names[i]), total)

(* the product of a budget and 10,000 does not fit an i64                  *)
C25_ProductOverflows ==
    /\ share_pc = "done"
    /\ \E i \in 1 .. (Len(NonNewNames(share_params)) - 1) :
           LET b == BudgetOf(share_params, NonNewNames(share_params)[i])
           IN ~WideLessEq(WideMul(b, RC_SHARE_BASIS_POINTS, 0), WideI64Max)

(* ============== the price per resource of the RC estimator ============= *)

(* x >> amount on the integers                                             *)
ShiftRight(x, amount) == IF amount >= U128_BITS THEN 0 ELSE x \div Pow2(amount)

UsageEstimate == estimate_resource_usage(rc_operations, rc_params, ClockUnread)
UsageOf(name) == by_name(UsageEstimate.value, name)
ShareOf(name) == GetOr0(rc_shares, name)
PoolOf(name) == GetOr0(rc_pool, name)
HasPositiveUsageAndShare(name) == UsageOf(name) > 0 /\ ShareOf(name) > 0
Denominator(name) ==
    rc_params.resource_params[name].coeff_b
      + (IF PoolOf(name) > 0 THEN PoolOf(name) ELSE 0)

(* cost_i of the resource as step 4 writes it                              *)
StatedCost(name) ==
    LET p == rc_params.resource_params[name]
        regen_share == (rc_regen * ShareOf(name)) \div RC_SHARE_BASIS_POINTS
    IN ((ShiftRight(regen_share * p.coeff_a, p.shift) + 1)
          * (UsageOf(name) * p.resource_unit)) \div Denominator(name) + 1

RECURSIVE StatedTotal(_)
StatedTotal(names) ==
    IF names = <<>> THEN 0
    ELSE (IF HasPositiveUsageAndShare(Head(names))
          THEN StatedCost(Head(names)) ELSE 0)
           + StatedTotal(Tail(names))

(* the formula of step 4 has a value for every resource it charges         *)
CostsAreDefined ==
    /\ UsageEstimate.kind = "Ok"
    /\ \A i \in 1 .. Len(NameOrder) :
           UsageOf(NameOrder[i]) > 0
           => /\ NameOrder[i] \in DOMAIN rc_params.resource_params
              /\ Denominator(NameOrder[i]) # 0

(* C26: for regen > 0, calculate_cost_from_state charges every resource    *)
(* with positive usage and positive share the cost                         *)
(* floor(((((regen * share_bp / 10,000) * coeff_a) >> shift) + 1)          *)
(*       * (usage * resource_unit) / (coeff_b + max(pool, 0))) + 1,        *)
(* charges nothing for the other resources, and returns the sum.           *)
C26_PricePerResource ==
    (RcReturned /\ rc_regen > 0 /\ CostsAreDefined)
    => /\ rc_result.kind = "Ok"
       /\ rc_result.value = StatedTotal(NameOrder)

(* a price curve whose shift is 128 or more meets the shift of line 510    *)
ShiftIsEvaluated(name) ==
    /\ name \in DOMAIN rc_params.resource_params
    /\ rc_params.resource_params[name].shift >= U128_BITS
    /\ rc_params.resource_params[name].resource_unit > 0
    /\ UsageOf(name) > 0
    /\ (rc_regen * ShareOf(name)) \div RC_SHARE_BASIS_POINTS > 0

(* the build with overflow checks panics on it                             *)
C26_ShiftPanics ==
    /\ RcReturned /\ rc_regen > 0 /\ CostsAreDefined
    /\ rc_checks
    /\ ShiftIsEvaluated(RESOURCE_HISTORY_BYTES)
    /\ rc_result.kind = "Panic"

(* the build without them charges more than the stated cost                *)
C26_ShiftWraps ==
    /\ RcReturned /\ rc_regen > 0 /\ CostsAreDefined
    /\ ~rc_checks
    /\ ShiftIsEvaluated(RESOURCE_HISTORY_BYTES)
    /\ rc_result.kind = "Ok"
    /\ rc_result.value > StatedTotal(NameOrder)

(* the resources the loop of lines 151-191 prices: those whose share of    *)
(* the regeneration and whose scaled usage are positive                    *)
IsPriced(name) ==
    /\ UsageOf(name) > 0
    /\ (rc_regen * ShareOf(name)) \div RC_SHARE_BASIS_POINTS > 0
    /\ rc_params.resource_params[name].resource_unit > 0

RECURSIVE PricedTotal(_)
PricedTotal(names) ==
    IF names = <<>> THEN 0
    ELSE (IF IsPriced(Head(names)) THEN StatedCost(Head(names)) ELSE 0)
           + PricedTotal(Tail(names))

(* with every shift below 128 the result is the sum of the stated costs of *)
(* the resources that are priced                                           *)
C26_PricedBelow128 ==
    (/\ RcReturned /\ rc_regen > 0 /\ CostsAreDefined
     /\ \A n \in DOMAIN rc_params.resource_params :
            rc_params.resource_params[n].shift < U128_BITS)
    => /\ rc_result.kind = "Ok"
       /\ rc_result.value = PricedTotal(NameOrder)

(* ==================== purity of the RC estimator ======================= *)

(* C28: two evaluations of calculate_cost_from_state with the same         *)
(* operations, params, pool, regen and shares return the same result,      *)
(* whatever the wall-clock time and whatever the operations, create_proposal *)
(* with any start_date and end_date included.                              *)
C28_EstimatorIsPure ==
    Len(est_results) = 2 => est_results[1] = est_results[2]

(* a create_proposal whose end_date is not after its start_date is priced  *)
(* by the time left until end_date                                         *)
C28_ClockIsRead ==
    /\ Len(est_results) = 2
    /\ est_results[1].kind = "Ok" /\ est_results[2].kind = "Ok"
    /\ est_results[2].value < est_results[1].value
    /\ Len(est_operations) = 1
    /\ est_operations[1].start_date = est_operations[1].end_date

(* when start_date and end_date parse and end_date is after start_date the *)
(* two results are the same                                                *)
C28_PureForOrderedDates ==
    (/\ Len(est_results) = 2
     /\ \A i \in 1 .. Len(est_operations) :
            /\ est_operations[i].start_date.valid
            /\ est_operations[i].end_date.valid
            /\ est_operations[i].end_date.seconds
                 > est_operations[i].start_date.seconds)
    => est_results[1] = est_results[2]

(* =============== layout of the transfer operations ===================== *)

Serialized == op_output.kind = "Ok"
AmountBytes == write_asset(op_input.amount).value
ASSET_BYTES == 16

(* the bytes from position k on are the amount asset and then nothing but  *)
(* the bytes given                                                          *)
AmountThen(k, bytes) ==
    /\ k + ASSET_BYTES - 1 <= Len(op_output.value)
    /\ SubSeq(op_output.value, k, k + ASSET_BYTES - 1) = AmountBytes
    /\ SubSeq(op_output.value, k + ASSET_BYTES, Len(op_output.value)) = bytes

(* the output ends with the amount asset followed by a memo string: the    *)
(* memo of the operation where it has one                                  *)
EndsWithAmountAndMemo ==
    \E k \in 1 .. Len(op_output.value) :
        IF op_input.kind = "transfer_to_vesting"
        THEN \E bytes \in {write_string(m) : m \in OperationMemos} :
                 AmountThen(k, bytes)
        ELSE AmountThen(k, write_string(op_input.memo))

(* the output ends with the amount asset                                   *)
EndsWithAmount ==
    AmountThen(Len(op_output.value) - ASSET_BYTES + 1, <<>>)

(* C27 as stated: each of transfer, transfer_to_vesting,                   *)
(* transfer_to_savings and transfer_from_savings serializes its amount     *)
(* asset followed by a memo string (varint length + UTF-8 bytes) as the    *)
(* last two body fields.                                                   *)
C27_AmountThenMemoInAllFour ==
    Serialized => EndsWithAmountAndMemo

(* C27 amended: transfer, transfer_to_savings and transfer_from_savings    *)
(* serialize the amount asset followed by the memo string as the last two  *)
(* body fields; transfer_to_vesting has no memo, and its last body field   *)
(* is the amount asset.                                                    *)
C27_AmountThenMemoButVesting ==
    Serialized
    => IF op_input.kind = "transfer_to_vesting" THEN EndsWithAmount
       ELSE EndsWithAmountAndMemo

(* the transfer of the worked example: foo to bar, 1.000 STEEM, memo       *)
(* "wedding present", 0203666f6f03626172e80300000000000003535445454d0000   *)
(* 0f77656464696e672070726573656e74                                        *)
C27_Witness ==
    /\ op_input = TransferOperation(Foo, Bar,
                                    Asset(I64(FALSE, <<1, 0, 0, 0>>), 3, Hive),
                                    WeddingPresent)
    /\ Serialized
    /\ op_output.value =
           <<2, 3, 102, 111, 111, 3, 98, 97, 114,
             232, 3, 0, 0, 0, 0, 0, 0, 3, 83, 84, 69, 69, 77, 0, 0, 15>>
             \o WeddingPresent
    /\ EndsWithAmountAndMemo

(* a transfer_to_vesting written without a memo                            *)
C27_WitnessVesting ==
    /\ op_input.kind = "transfer_to_vesting"
    /\ Serialized
    /\ EndsWithAmount
    /\ op_input.to = Bar

(* a transfer_to_savings with a memo of two UTF-8 bytes                    *)
C27_WitnessSavings ==
    /\ op_input.kind = "transfer_to_savings"
    /\ Serialized
    /\ op_input.memo = <<233>>
    /\ EndsWithAmountAndMemo

(* ============ properties of Blockchain::get_block_numbers ============== *)

StreamEnded == bn_pc = "ended"
YieldedNumbers == {bn_yielded[i] : i \in 1 .. Len(bn_yielded)}

(* C29: when options.to is set, the stream never yields a block number     *)
(* greater than to, for every combination of from, to and current head     *)
(* (to < from included), and it ends right after yielding to.              *)
C29_NeverPastTo ==
    bn_options.to.some
    => /\ \A i \in 1 .. Len(bn_yielded) :
              /\ ~U32Less(bn_options.to.number, bn_yielded[i])
              /\ bn_yielded[i] = bn_options.to.number => i = Len(bn_yielded)
       /\ (bn_yielded # <<>>
             /\ bn_yielded[Len(bn_yielded)] = bn_options.to.number)
          => bn_pc \in {"yielded", "ended"}

(* a stream whose to is below its from has yielded from                    *)
C29_YieldedPastTo ==
    /\ bn_options.from.some /\ bn_options.to.some
    /\ U32Less(bn_options.to.number, bn_options.from.number)
    /\ bn_yielded = <<bn_options.from.number>>
    /\ StreamEnded

(* when to is not below the first number the stream gives, the statement   *)
(* holds                                                                   *)
C29_HoldsFromFirstNumberOn ==
    (/\ bn_options.to.some
     /\ bn_polled # <<>>
     /\ ~U32Less(bn_options.to.number,
                 IF bn_options.from.some THEN bn_options.from.number
                 ELSE bn_polled[1]))
    => C29_NeverPastTo

(* the first number the stream gives: from, or the first polled number     *)
FirstNumber ==
    IF bn_options.from.some THEN bn_options.from.number ELSE bn_polled[1]
FromIsAhead ==
    /\ bn_options.from.some
    /\ bn_polled # <<>>
    /\ U32Less(bn_polled[1], bn_options.from.number)

(* C30: the stream fails with an Other error if from is larger than the    *)
(* current block number at start; otherwise it yields consecutive block    *)
(* numbers from, from+1, ... (from the current block number when from is   *)
(* unset) with no gap and no repeat, and a number is yielded only after a  *)
(* poll has observed a current block number strictly greater than it,      *)
(* however the polled current block number evolves between polls.          *)
C30_ConsecutiveAndObserved ==
    /\ FromIsAhead
         => /\ StreamEnded
            /\ bn_error = "Other"
            /\ bn_yielded = <<>>
    /\ bn_error = "Other" => FromIsAhead
    /\ bn_yielded # <<>> => bn_yielded[1] = FirstNumber
    /\ \A i \in 1 .. Len(bn_yielded) - 1 :
           /\ bn_yielded[i + 1] = saturating_add_one(bn_yielded[i])
           /\ bn_yielded[i + 1] # bn_yielded[i]
    /\ \A i \in 1 .. Len(bn_yielded) :
           \E j \in 1 .. Len(bn_polled) : U32Less(bn_yielded[i], bn_polled[j])

(* a number is yielded in a step where current is strictly greater         *)
C30_YieldBelowCurrent ==
    [][Yield => /\ U32Less(bn_seen, bn_current)
                /\ bn_current = bn_polled[Len(bn_polled)]
                /\ bn_yielded' = Append(bn_yielded, bn_seen)]_vars

(* two numbers given with a poll that went back in between, up to the last *)
(* but one number of the u32 range                                         *)
C30_Witness ==
    /\ ~bn_options.from.some
    /\ Len(bn_yielded) = 2
    /\ bn_yielded[2] = U32(65535, 65534)
    /\ Len(bn_polled) = 4
    /\ U32Less(bn_polled[3], bn_polled[2])
    /\ bn_seen = U32_MAX

(* the stream that failed at its start                                     *)
C30_WitnessFromAhead ==
    /\ FromIsAhead
    /\ StreamEnded
    /\ bn_error = "Other"

====
